---- MODULE Spec2Model ----
(***************************************************************************)
(* Well-performance curve engine of IPPS: the inflow (IPR) generators of   *)
(* NodalAnalysisUtils.ts, and the real-gas z-factor solvers of             *)
(* GasCorrelations.ts.                                                     *)
(*                                                                         *)
(* JavaScript numbers are modelled as extended rationals: a finite value   *)
(* is an exact fraction n/d, and NaN, +Infinity and -Infinity are values   *)
(* of their own that follow the IEEE-754 rules of the operators (rounding  *)
(* of the mantissa and the sign of zero are not modelled).  The iterative  *)
(* z-factor solvers run in fixed point (ZScale units per 1.0).             *)
(***************************************************************************)
EXTENDS Integers, Sequences, FiniteSets, TLC

(***************************************************************************)
(* Extended rational arithmetic (the JavaScript number operators).         *)
(***************************************************************************)
AbsI(x) == IF x < 0 THEN -x ELSE x

SgnI(x) == IF x < 0 THEN -1 ELSE IF x > 0 THEN 1 ELSE 0

RECURSIVE GCD(_, _)
GCD(a, b) == IF b = 0 THEN a ELSE GCD(b, a % b)

NaN == [t |-> "nan", n |-> 0, d |-> 1]

PInf == [t |-> "pinf", n |-> 0, d |-> 1]

NInf == [t |-> "ninf", n |-> 0, d |-> 1]

\* The finite number n/d (d # 0), in lowest terms with a positive denominator.
Fin(n, d) ==
  LET g == GCD(AbsI(n), AbsI(d))
      sg == IF d < 0 THEN -1 ELSE 1
  IN [t |-> "fin", n |-> sg * (n \div g), d |-> AbsI(d) \div g]

Int2Num(n) == [t |-> "fin", n |-> n, d |-> 1]

Zero == Int2Num(0)

One == Int2Num(1)

IsNaN(x) == x.t = "nan"

\* Number.isFinite
IsFinite(x) == x.t = "fin"

\* The sign of a number that is not NaN: -1, 0 or 1.
Sign(x) == CASE x.t = "pinf" -> 1
             [] x.t = "ninf" -> -1
             [] OTHER -> SgnI(x.n)

InfOf(sg) == IF sg > 0 THEN PInf ELSE NInf

Neg(x) == CASE x.t = "fin" -> [x EXCEPT !.n = -x.n]
            [] x.t = "pinf" -> NInf
            [] x.t = "ninf" -> PInf
            [] OTHER -> NaN

Add(x, y) ==
  CASE IsNaN(x) \/ IsNaN(y) -> NaN
    [] IsFinite(x) /\ IsFinite(y) ->
         LET g == GCD(x.d, y.d)
         IN Fin(x.n * (y.d \div g) + y.n * (x.d \div g), x.d * (y.d \div g))
    [] IsFinite(x) -> y
    [] IsFinite(y) -> x
    [] OTHER -> IF x.t = y.t THEN x ELSE NaN

Sub(x, y) == Add(x, Neg(y))

Mul(x, y) ==
  CASE IsNaN(x) \/ IsNaN(y) -> NaN
    [] IsFinite(x) /\ IsFinite(y) ->
         LET g1 == GCD(AbsI(x.n), y.d)
             g2 == GCD(AbsI(y.n), x.d)
         IN Fin((x.n \div g1) * (y.n \div g2), (x.d \div g2) * (y.d \div g1))
    [] OTHER -> IF Sign(x) = 0 \/ Sign(y) = 0 THEN NaN
                ELSE InfOf(Sign(x) * Sign(y))

Div(x, y) ==
  CASE IsNaN(x) \/ IsNaN(y) -> NaN
    [] IsFinite(x) /\ IsFinite(y) ->
         IF y.n = 0
         THEN (IF x.n = 0 THEN NaN ELSE InfOf(x.n))
         ELSE Mul(x, Fin(y.d, y.n))
    [] IsFinite(x) -> Zero
    [] IsFinite(y) -> IF y.n < 0 THEN Neg(x) ELSE x
    [] OTHER -> NaN

\* a/b < c/d for a >= 0, c >= 0, b > 0, d > 0, by comparing the integer parts
\* and then the reciprocals of the remainders (no product is formed).
RECURSIVE FracLt(_, _, _, _)
FracLt(a, b, c, d) ==
  IF a \div b # c \div d THEN a \div b < c \div d
  ELSE IF a % b = 0 THEN c % d > 0
  ELSE IF c % d = 0 THEN FALSE
  ELSE FracLt(d, c % d, b, a % b)

\* x < y; false as soon as one side is NaN.
Lt(x, y) ==
  CASE IsNaN(x) \/ IsNaN(y) -> FALSE
    [] IsFinite(x) /\ IsFinite(y) ->
         IF x.n < 0 /\ y.n < 0 THEN FracLt(-y.n, y.d, -x.n, x.d)
         ELSE IF x.n < 0 \/ y.n < 0 THEN x.n < 0 /\ y.n >= 0
         ELSE FracLt(x.n, x.d, y.n, y.d)
    [] OTHER -> x.t # y.t /\ (x.t = "ninf" \/ y.t = "pinf")

Le(x, y) == ~IsNaN(x) /\ ~IsNaN(y) /\ (x = y \/ Lt(x, y))

Gt(x, y) == Lt(y, x)

Ge(x, y) == Le(y, x)

\* Math.max of two numbers.
Max2(x, y) == IF IsNaN(x) \/ IsNaN(y) THEN NaN ELSE IF Lt(x, y) THEN y ELSE x

Sq(x) == Mul(x, x)

(***************************************************************************)
(* Math.sqrt and Math.log.  The square root of a fraction whose numerator  *)
(* and denominator are perfect squares is exact; any other root, and every *)
(* logarithm, is rounded down to a fixed number of decimals.               *)
(***************************************************************************)
Pow10(k) ==
  <<1, 10, 100, 1000, 10000, 100000, 1000000, 10000000, 100000000,
    1000000000>>[k + 1]

\* floor(r * 10^k / d) for 0 <= r < d.
RECURSIVE DivDigits(_, _, _)
DivDigits(r, d, k) ==
  IF k = 0 THEN 0
  ELSE ((r * 10) \div d) * Pow10(k - 1) + DivDigits((r * 10) % d, d, k - 1)

\* floor(n * 10^k / d) for n >= 0, d > 0.
FloorScaled(n, d, k) == (n \div d) * Pow10(k) + DivDigits(n % d, d, k)

RECURSIVE ISqrtIter(_, _)
ISqrtIter(n, x) ==
  LET y == (x + n \div x) \div 2
  IN IF y >= x THEN x ELSE ISqrtIter(n, y)

\* floor(sqrt(n)) for n >= 0.
ISqrt(n) == IF n = 0 THEN 0 ELSE ISqrtIter(n, n)

\* Math.sqrt; an inexact root keeps three decimals.
Sqrt(x) ==
  CASE IsNaN(x) \/ Sign(x) < 0 -> NaN
    [] x.t = "pinf" -> PInf
    [] OTHER ->
         LET rn == ISqrt(x.n)
             rd == ISqrt(x.d)
         IN IF rn * rn = x.n /\ rd * rd = x.d
            THEN Fin(rn, rd)
            ELSE Fin(ISqrt(FloorScaled(x.n, x.d, 6)), 1000)

\* <<e, n, d>> with n0/d0 = 2^e * n/d and 1 <= n/d < 2, for n0 > 0, d0 > 0;
\* a term too large to double is halved on the other side instead.
RECURSIVE LnReduce(_, _, _)
LnReduce(n, d, e) ==
  IF n < d
  THEN (IF n <= 500000000 THEN LnReduce(2 * n, d, e - 1)
        ELSE LnReduce(n, d \div 2, e - 1))
  ELSE IF n \div 2 >= d
  THEN (IF d <= 500000000 THEN LnReduce(n, 2 * d, e + 1)
        ELSE LnReduce(n \div 2, d, e + 1))
  ELSE <<e, n, d>>

\* n/d with both terms at most 10^8 (halved together until they are).
RECURSIVE LnShrink(_, _)
LnShrink(n, d) ==
  IF n > 100000000 \/ d > 100000000 THEN LnShrink(n \div 2, d \div 2) ELSE <<n, d>>

\* ln(n/d) in units of 1/10000 for 1 <= n/d < 2: 2 * atanh((n-d)/(n+d)).
LnMantissa(n, d) ==
  LET s == LnShrink(n, d)
      y == FloorScaled(s[1] - s[2], s[1] + s[2], 4)
      y2 == (y * y) \div 10000
      y3 == (y2 * y) \div 10000
      y5 == (y3 * y2) \div 10000
      y7 == (y5 * y2) \div 10000
  IN 2 * (y + y3 \div 3 + y5 \div 5 + y7 \div 7)

\* Math.log, rounded to two decimals (ln 2 = 0.6931).
Ln(x) ==
  CASE IsNaN(x) \/ Sign(x) < 0 -> NaN
    [] Sign(x) = 0 -> NInf
    [] x.t = "pinf" -> PInf
    [] OTHER ->
         LET r == LnReduce(x.n, x.d, 0)
             v == r[1] * 6931 + LnMantissa(r[2], r[3])
         IN Fin(SgnI(v) * ((AbsI(v) + 50) \div 100), 100)

(***************************************************************************)
(* The request and the state of one generator call.                        *)
(***************************************************************************)
VARIABLES
  req,     \* the parameter bag, with iprPhase, flowRegime and zMethod
  pc,      \* "ready", the loop being run, or "done"
  i,       \* iterations of the running loop so far (the index of a count loop)
  cur,     \* the loop variable of a step loop: p_wf or q
  points,  \* the curve built so far
  zreq,      \* the z-factor request: P_pr, T_pr (fixed point) and method
  zpc,       \* "idle", "z_gas", the correlation entered, its loop, or "returned"
  iteration, \* the solver's iteration counter
  zcur,      \* the solver's iterate: rho_pr (codes 0, 1) or Z (code 3)
  zold,      \* the iterate before the last update
  zZ,        \* the Z of the last pass
  zfinite,   \* FALSE once a division by zero made the iterate non-finite
  zout,      \* the outcome: a value, NaN, or a raised error
  march,   \* the locals of the pressure march of calculateGasOPR
  freq,    \* the friction call: Re, rel and the model selector
  fpc,     \* "idle", "call", "Colebrook-White" (its loop) or "returned"
  fout,    \* the Fanning factor returned; fM during the loop
  fi       \* the index i of the loop of the Colebrook-White case

iprvars == <<req, pc, i, cur, points>>

zvars == <<zreq, zpc, iteration, zcur, zold, zZ, zfinite, zout>>

tubvars == <<march, freq, fpc, fout, fi>>

vars == <<req, pc, i, cur, points,
          zreq, zpc, iteration, zcur, zold, zZ, zfinite, zout,
          march, freq, fpc, fout, fi>>

\* A spacingValue the caller left out.
Undefined == [t |-> "undefined", n |-> 0, d |-> 1]

\* v || 0
OrZero(v) == IF v = Undefined \/ IsNaN(v) \/ v = Zero THEN Zero ELSE v

\* Iterations after which a loop of the model is cut off.
MaxSteps == 45

defaultN == Int2Num(25)

Point(p_wf, q_o) == [p_wf |-> p_wf, q_o |-> q_o]

\* val > 0 ? val : dflt
PositiveOr(val, dflt) == IF Gt(val, Zero) THEN val ELSE dflt

\* The name-to-code map of calculateIPR.
correlationMap(zMethod) ==
  CASE zMethod = "Dranchuk & Abou-Kassem - 1975" -> 0
    [] zMethod = "Dranchuk, Purvis & Robinson - 1974" -> 1
    [] zMethod = "Hall & Yarborough - 1974" -> 2
    [] zMethod = "Redlich Kwong - 1949" -> 3
    [] zMethod = "Brill & Beggs - 1974" -> 4
    [] zMethod = "Chart Interpolation" -> 5
    [] OTHER -> 0

(***************************************************************************)
(* Liquid inflow: oil_calculateTransientIPR, oil_calculatePseudosteadyIPR, *)
(* oil_calculateSteadyStateIPR.                                            *)
(***************************************************************************)
oil_logTerm(r) ==
  Add(Sub(Add(Ln(r.t),
              Ln(Div(r.k, Mul(Mul(Mul(Mul(Div(r.phi, Int2Num(100)), r.muo), r.ct), r.rw), r.rw)))),
          Fin(323, 100)),
      Mul(Fin(869, 1000), r.s))

oil_transient_factor(r) ==
  Div(Mul(r.k, r.h), Mul(Mul(Fin(1626, 10), r.Bo), r.muo))

oil_transient_flow(r, p_wf) ==
  Div(Mul(oil_transient_factor(r), Sub(r.pi, p_wf)), oil_logTerm(r))

oil_transient_invert(r, q) ==
  Sub(r.pi, Div(Mul(q, oil_logTerm(r)), oil_transient_factor(r)))

oil_transient_qMax(r) ==
  Div(Mul(oil_transient_factor(r), r.pi), oil_logTerm(r))

oil_pss_denom(r) == Add(Sub(Ln(Div(r.re, r.rw)), Fin(3, 4)), r.s)

oil_pss_factor(r) ==
  Div(Div(Mul(r.k, r.h), Mul(Mul(Fin(1412, 10), r.Bo), r.muo)), oil_pss_denom(r))

oil_pss_flow(r, p_wf) == Mul(oil_pss_factor(r), Sub(r.p_avg, p_wf))

oil_pss_invert(r, q) == Sub(r.p_avg, Div(q, oil_pss_factor(r)))

oil_pss_qMax(r) == Mul(oil_pss_factor(r), r.p_avg)

oil_ss_denom(r) == Add(Ln(Div(r.re, r.rw)), r.s)

oil_ss_factor(r) ==
  Div(Div(Mul(r.k, r.h), Mul(Mul(Fin(1412, 10), r.Bo), r.muo)), oil_ss_denom(r))

oil_ss_flow(r, p_wf) == Mul(oil_ss_factor(r), Sub(r.pe, p_wf))

oil_ss_invert(r, q) == Sub(r.pe, Div(q, oil_ss_factor(r)))

oil_ss_qMax(r) == Mul(oil_ss_factor(r), r.pe)

\* A faulty loop condition: while (p_wf !== 0)
WhileNotZero(p_wf) == p_wf # Zero

\* The condition of the 'Delta Pressure' loop of the two-phase, the gas
\* pseudosteady and the gas steady-state generator: while (p_wf >= 0)
WhileNotBelowZero(p_wf) == Ge(p_wf, Zero)

\* A faulty loop condition for the liquid and gas transient generators:
\* while (p_wf >= 0)
WhileAboveZero_inclusive(p_wf) == Ge(p_wf, Zero)

\* The condition of the 'Delta Pressure' loop of the liquid generators and
\* of the gas transient generator: while (p_wf > 0)
WhileAboveZero(p_wf) == Gt(p_wf, Zero)

\* A faulty spacing: the fraction taken over N instead of N - 1.
CountPressure_overN(p_ref, N, idx) ==
  Mul(p_ref, Sub(One, Div(Int2Num(idx), N)))

\* frac = i / (N - 1); p_wf = p_ref * (1 - frac)
CountPressure(p_ref, N, idx) ==
  Mul(p_ref, Sub(One, Div(Int2Num(idx), Sub(N, One))))

\* The forward relation q_o(p_wf) of the generator the request runs.
oil_flow(r, p_wf) ==
  CASE r.flowRegime = "Transient" -> oil_transient_flow(r, p_wf)
    [] r.flowRegime = "Pseudosteady-State" -> oil_pss_flow(r, p_wf)
    [] OTHER -> oil_ss_flow(r, p_wf)

\* The inverse relation p_wf(q) of the generator the request runs.
oil_invert(r, q) ==
  CASE r.flowRegime = "Transient" -> oil_transient_invert(r, q)
    [] r.flowRegime = "Pseudosteady-State" -> oil_pss_invert(r, q)
    [] OTHER -> oil_ss_invert(r, q)

\* One pass through the loop the spacing method selected, for a liquid
\* generator with reference pressure p_ref and Delta Flowrate bound qMax.
LiquidStep(p_ref, qMax) ==
  /\ i < MaxSteps
  /\ UNCHANGED <<zvars, tubvars>>
  /\ req' = req
  /\ i' = i + 1
  /\ CASE pc \in {"NumPoints", "Default"} ->
            LET N == IF pc = "Default" THEN defaultN
                     ELSE PositiveOr(OrZero(req.spacingValue), defaultN)
                p_wf == CountPressure(p_ref, N, i)
            IN IF Lt(Int2Num(i), N)
               THEN /\ points' = Append(points, Point(p_wf, oil_flow(req, p_wf)))
                    /\ UNCHANGED <<pc, cur>>
               ELSE /\ pc' = "done"
                    /\ UNCHANGED <<points, cur>>
       [] pc = "DeltaP" ->
            LET deltaP == PositiveOr(OrZero(req.spacingValue), Int2Num(100))
            IN IF WhileAboveZero(cur)
               THEN /\ points' = Append(points, Point(cur, oil_flow(req, cur)))
                    /\ cur' = Sub(cur, deltaP)
                    /\ pc' = pc
               ELSE /\ pc' = "done"
                    /\ UNCHANGED <<points, cur>>
       [] pc = "DeltaQ" ->
            LET dq == PositiveOr(OrZero(req.spacingValue), Int2Num(50))
                p_wf == oil_invert(req, cur)
            IN IF Le(cur, qMax) /\ ~Lt(p_wf, Zero)
               THEN /\ points' = Append(points, Point(p_wf, cur))
                    /\ cur' = Add(cur, dq)
                    /\ pc' = pc
               ELSE /\ pc' = "done"
                    /\ UNCHANGED <<points, cur>>

Running == pc \in {"NumPoints", "Default", "DeltaP", "DeltaQ"}

oil_calculateTransientIPR ==
  /\ Running
  /\ req.iprPhase = "Liquid" /\ req.flowRegime = "Transient"
  /\ LiquidStep(req.pi, oil_transient_qMax(req))

oil_calculatePseudosteadyIPR ==
  /\ Running
  /\ req.iprPhase = "Liquid" /\ req.flowRegime = "Pseudosteady-State"
  /\ LiquidStep(req.p_avg, oil_pss_qMax(req))

oil_calculateSteadyStateIPR ==
  /\ Running
  /\ req.iprPhase = "Liquid" /\ req.flowRegime = "Steady-State"
  /\ LiquidStep(req.pe, oil_ss_qMax(req))

(***************************************************************************)
(* Two-phase inflow: two_calculatePseudosteadyIPR.                         *)
(***************************************************************************)
\* invertFlow's null.
Null == [t |-> "null", n |-> 0, d |-> 1]

two_denom(r) == Add(Sub(Ln(Div(r.re, r.rw)), Fin(3, 4)), r.s)

\* The productivity index J.
two_J(r) ==
  Div(Div(Mul(r.k, r.h), Mul(Mul(Fin(1412, 10), r.Bo), r.muo)), two_denom(r))

q_bubble(r) == Mul(two_J(r), Sub(r.p_avg, r.pb))

q_vmax(r) == Div(q_bubble(r), Fin(18, 10))

\* A faulty shape: the two coefficients exchanged.
VogelShape_swapped(a, x) == Sub(Sub(One, Mul(a, x)), Mul(Sub(One, a), Sq(x)))

\* 1 - (1-a) * x - a * x^2
VogelShape(a, x) == Sub(Sub(One, Mul(Sub(One, a), x)), Mul(a, Sq(x)))

\* getFlow, p_avg <= pb: the whole range on the Vogel-type curve.
getFlow_saturated(r, p_wf) ==
  Mul(Div(Mul(two_J(r), r.p_avg), Add(One, r.a)),
      VogelShape(r.a, Div(p_wf, r.p_avg)))

\* getFlow, p_avg > pb and p_wf >= pb: the linear (Darcy) branch.
getFlow_linear(r, p_wf) == Mul(two_J(r), Sub(r.p_avg, p_wf))

\* A faulty Vogel-type branch: the bubble-point rate left out.
getFlow_vogel_noOffset(r, p_wf) ==
  Mul(Div(Mul(two_J(r), r.pb), Add(One, r.a)),
      Sub(Sub(One, Mul(Sub(One, r.a), Div(p_wf, r.pb))),
          Mul(r.a, Sq(Div(p_wf, r.pb)))))

\* getFlow, p_avg > pb and p_wf < pb: the Vogel-type branch.
getFlow_vogel(r, p_wf) ==
  Add(Mul(two_J(r), Sub(r.p_avg, r.pb)),
      Mul(Div(Mul(two_J(r), r.pb), Add(One, r.a)),
          VogelShape(r.a, Div(p_wf, r.pb))))

getFlow(r, p_wf) ==
  IF Le(r.p_avg, r.pb) THEN getFlow_saturated(r, p_wf)
  ELSE IF Ge(p_wf, r.pb) THEN getFlow_linear(r, p_wf)
  ELSE getFlow_vogel(r, p_wf)

\* The roots x1, x2 of A_coef x^2 + B_coef x + C_coef = 0, or <<>> when the
\* discriminant is negative.
QuadraticRoots(A_coef, B_coef, C_coef) ==
  LET disc == Sub(Sq(B_coef), Mul(Mul(Int2Num(4), A_coef), C_coef))
      sqrtDisc == Sqrt(disc)
  IN IF Lt(disc, Zero) THEN <<>>
     ELSE << Div(Add(Neg(B_coef), sqrtDisc), Mul(Int2Num(2), A_coef)),
             Div(Sub(Neg(B_coef), sqrtDisc), Mul(Int2Num(2), A_coef)) >>

\* A faulty filter: negative roots let through.
Candidates_noLower(roots) == SelectSeq(roots, LAMBDA x : Le(x, One))

\* [x1, x2].filter(x => x >= 0 && x <= 1)
Candidates(roots) ==
  SelectSeq(roots, LAMBDA x : Ge(x, Zero) /\ Le(x, One))

\* Math.max(...candidates), candidates not empty.
MaxOf(candidates) ==
  IF Len(candidates) = 1 THEN candidates[1] ELSE Max2(candidates[1], candidates[2])

\* The accepted root scaled by p_scale, or null.
PickRoot(roots, p_scale) ==
  IF Len(Candidates(roots)) = 0 THEN Null
  ELSE Mul(MaxOf(Candidates(roots)), p_scale)

invertFlow(r, q) ==
  IF Le(r.p_avg, r.pb)
  THEN LET A_sat == Div(Mul(two_J(r), r.p_avg), Add(One, r.a))
           C_coef == Sub(Div(q, A_sat), One)
       IN PickRoot(QuadraticRoots(r.a, Sub(One, r.a), C_coef), r.p_avg)
  ELSE LET p_wf_single == Sub(r.p_avg, Div(q, two_J(r)))
           Q_offset == Mul(two_J(r), Sub(r.p_avg, r.pb))
           A_vog == Div(Mul(two_J(r), r.pb), Add(One, r.a))
           C_coef == Sub(Div(Sub(q, Q_offset), A_vog), One)
       IN IF Ge(p_wf_single, r.pb) THEN p_wf_single
          ELSE PickRoot(QuadraticRoots(r.a, Sub(One, r.a), C_coef), r.pb)

\* A faulty bound: the saturated maximum without its 1 / (1 + a).
two_qMax_unscaled(r) ==
  IF Le(r.p_avg, r.pb) THEN Mul(two_J(r), r.p_avg)
  ELSE Max2(Mul(two_J(r), r.p_avg), Add(q_bubble(r), q_vmax(r)))

\* The upper bound of the Delta Flowrate loop.
two_qMax(r) ==
  IF Le(r.p_avg, r.pb)
  THEN Div(Mul(two_J(r), r.p_avg), Add(One, r.a))
  ELSE Max2(Mul(two_J(r), r.p_avg), Add(q_bubble(r), q_vmax(r)))

two_calculatePseudosteadyIPR ==
  /\ Running
  /\ req.iprPhase = "Two-phase" /\ req.flowRegime = "Pseudosteady-State"
  /\ i < MaxSteps
  /\ UNCHANGED <<zvars, tubvars>>
  /\ req' = req
  /\ i' = i + 1
  /\ CASE pc = "DeltaQ" ->
            LET dq == PositiveOr(OrZero(req.spacingValue), Int2Num(50))
                p_wf == invertFlow(req, cur)
            IN IF Le(cur, two_qMax(req))
               THEN /\ points' = IF p_wf # Null
                                 THEN Append(points, Point(p_wf, cur))
                                 ELSE points
                    /\ cur' = Add(cur, dq)
                    /\ pc' = pc
               ELSE /\ pc' = "done"
                    /\ UNCHANGED <<points, cur>>
       [] pc = "NumPoints" ->
            LET N == PositiveOr(OrZero(req.spacingValue), defaultN)
                p_wf == CountPressure(req.p_avg, N, i)
            IN IF Lt(Int2Num(i), N)
               THEN /\ points' = Append(points, Point(p_wf, getFlow(req, p_wf)))
                    /\ UNCHANGED <<pc, cur>>
               ELSE /\ pc' = "done"
                    /\ UNCHANGED <<points, cur>>
       [] pc = "DeltaP" ->
            LET deltaP == PositiveOr(OrZero(req.spacingValue), Int2Num(100))
            IN IF WhileNotBelowZero(cur)
               THEN /\ points' = Append(points, Point(cur, getFlow(req, cur)))
                    /\ cur' = Sub(cur, deltaP)
                    /\ pc' = pc
               ELSE /\ pc' = "done"
                    /\ UNCHANGED <<points, cur>>

(***************************************************************************)
(* calculateIPR: the dispatch on (phase, regime), and each generator's     *)
(* choice of loop from the spacing method.                                 *)
(***************************************************************************)
\* spacingMethod || ''
MethodOf(r) == r.spacingMethod

\* The pressure a liquid or two-phase generator starts from.
RefPressure(r) ==
  CASE r.iprPhase = "Liquid" /\ r.flowRegime = "Transient" -> r.pi
    [] r.iprPhase = "Liquid" /\ r.flowRegime = "Steady-State" -> r.pe
    [] OTHER -> r.p_avg

\* The loop a liquid generator enters.
LiquidLoop(method) ==
  CASE method = "Number of Points" -> "NumPoints"
    [] method = "Delta Pressure" -> "DeltaP"
    [] method = "Delta Flowrate" -> "DeltaQ"
    [] OTHER -> "Default"

\* The loop two_calculatePseudosteadyIPR enters; any other method returns
\* the empty curve at once.
TwoPhaseLoop(method) ==
  CASE method = "Delta Flowrate" -> "DeltaQ"
    [] method \in {"Number of Points", ""} -> "NumPoints"
    [] method = "Delta Pressure" -> "DeltaP"
    [] OTHER -> "done"

LiquidRegimes == {"Transient", "Pseudosteady-State", "Steady-State"}

\* The loop the dispatched generator enters, "done" for a pair that no
\* generator handles.
\* A faulty dispatch: the two-phase branch without its switch on the regime.
Dispatch_anyRegime(r) ==
  CASE r.iprPhase = "Liquid" /\ r.flowRegime \in LiquidRegimes ->
         LiquidLoop(MethodOf(r))
    [] r.iprPhase = "Gas" /\ r.flowRegime \in LiquidRegimes -> "Gas"
    [] r.iprPhase = "Two-phase" -> TwoPhaseLoop(MethodOf(r))
    [] OTHER -> "done"

Dispatch(r) ==
  CASE r.iprPhase = "Liquid" /\ r.flowRegime \in LiquidRegimes ->
         LiquidLoop(MethodOf(r))
    [] r.iprPhase = "Gas" /\ r.flowRegime \in LiquidRegimes -> "Gas"
    [] r.iprPhase = "Two-phase" /\ r.flowRegime = "Pseudosteady-State" ->
         TwoPhaseLoop(MethodOf(r))
    [] OTHER -> "done"

calculateIPR ==
  /\ pc = "ready"
  /\ req' = [req EXCEPT !.zMethodCode = correlationMap(req.zMethod)]
  /\ pc' = Dispatch(req)
  /\ i' = 0
  /\ cur' = IF Dispatch(req) = "DeltaP" THEN RefPressure(req) ELSE Zero
  /\ points' = <<>>
  /\ UNCHANGED <<zvars, tubvars>>

(***************************************************************************)
(* Real-gas z-factor: z_gas and the correlations of GasCorrelations.ts, in *)
(* fixed point.  A quantity x is held as the integer x * ZScale, products  *)
(* and quotients are truncated toward zero, and a coefficient of the       *)
(* source is kept to four decimals.                                        *)
(***************************************************************************)
ZScale == Pow10(4)

\* The fixed-point value of n / d.
Fx(n, d) == (n * ZScale) \div d

\* a * b, formed from the halves of the factors so that no intermediate
\* product leaves 32 bits.
MulF(a, b) ==
  LET x == AbsI(a)
      y == AbsI(b)
      xh == x \div 100
      xl == x % 100
      yh == y \div 100
      yl == y % 100
  IN SgnI(a) * SgnI(b)
       * (xh * yh + (xh * yl + xl * yh + (xl * yl) \div 100) \div 100)

\* a / b for b # 0, two decimals at a time.
DivF(a, b) ==
  LET x == AbsI(a)
      y == AbsI(b)
      r1 == x % y
      r2 == (r1 * 100) % y
  IN SgnI(a) * SgnI(b)
       * ((x \div y) * ZScale + ((r1 * 100) \div y) * 100 + (r2 * 100) \div y)

\* x ** n for an integer n >= 0.
RECURSIVE PowF(_, _)
PowF(x, n) == IF n = 0 THEN ZScale ELSE MulF(x, PowF(x, n - 1))

\* exp(-f) for 0 <= f < 1: the series 1 - f/1 (1 - f/2 (1 - f/3 ( ... ))),
\* from term k on.
RECURSIVE ExpNegSeries(_, _)
ExpNegSeries(f, k) ==
  IF k > 8 THEN ZScale
  ELSE ZScale - MulF(f, ExpNegSeries(f, k + 1)) \div k

\* Math.exp(-x) for x >= 0 (exp(-1) = 0.3679); below the resolution from
\* x = 10 on.
ExpNeg(x) ==
  IF x >= 10 * ZScale THEN 0
  ELSE MulF(ExpNegSeries(x % ZScale, 1), PowF(3679, x \div ZScale))

\* Math.exp(x), for x above -10 and below the x whose exp(-x) is zero.
ExpF(x) == IF x < 0 THEN ExpNeg(-x) ELSE DivF(ZScale, ExpNeg(x))

\* Math.log(x) for x > 0.
LnF(x) ==
  LET r == LnReduce(x, ZScale, 0)
  IN r[1] * 6931 + LnMantissa(r[2], r[3])

\* Math.sqrt(x) for x >= 0.
SqrtF(x) == ISqrt(x * ZScale)

\* ln 10
Ln10F == Fx(23026, 10000)

\* A faulty convergence test: a tolerance of 1e-2 whatever the solver's.
WithinTol_loose(a, b, tolInv) == AbsI(a - b) * 100 < ZScale

\* |a - b| < 1 / tolInv
WithinTol(a, b, tolInv) ==
  AbsI(a - b) < 1000 /\ AbsI(a - b) * tolInv < ZScale

\* The iteration cap of the three iterative solvers.
maxIter == 100

\* What a call hands back: a number, NaN, or a raised error.
ZValue(v) == [kind |-> "value", v |-> v]

ZNaN == [kind |-> "nan", v |-> 0]

ZError == [kind |-> "error", v |-> 0]

ZNone == [kind |-> "none", v |-> 0]

\* return 999
ZSentinel == ZValue(999 * ZScale)

\* The domain checks at the head of each correlation.
DAK_domain(P, T) == P > 0 /\ P < 30 * ZScale /\ T > ZScale /\ T <= 3 * ZScale

DPR_domain(P, T) == P > 0 /\ P < 15 * ZScale /\ T > ZScale /\ T <= 3 * ZScale

RK_domain(P, T) == P >= 0 /\ P < 15 * ZScale /\ T > ZScale /\ T <= 3 * ZScale

BB_domain(P, T) ==
  (P >= 0 /\ P < 15 * ZScale) /\ (T > Fx(115, 100) /\ T <= Fx(24, 10))

\* The initial guess of the two density iterations: 0.27 * (Ppr / Tpr).
rho_guess(P, T) == MulF(Fx(27, 100), DivF(P, T))

\* Z of one pass of Z_DAK1975 at reduced density rho.
DAK_Z(T, rho) ==
  LET A1 == Fx(3265, 10000)
      A2 == Fx(-107, 100)
      A3 == Fx(-5339, 10000)
      A4 == Fx(157, 10000)
      A5 == Fx(-517, 10000)
      A6 == Fx(5475, 10000)
      A7 == Fx(-7361, 10000)
      A8 == Fx(1844, 10000)
      A9 == Fx(1056, 10000)
      A10 == Fx(6134, 10000)
      A11 == Fx(721, 1000)
      C1 == A1 + DivF(A2, T) + DivF(A3, PowF(T, 3)) + DivF(A4, PowF(T, 4))
               + DivF(A5, PowF(T, 5))
      C2 == A6 + DivF(A7, T) + DivF(A8, PowF(T, 2))
      C3 == MulF(A9, DivF(A7, T) + DivF(A8, PowF(T, 2)))
      rho2 == MulF(rho, rho)
      rho5 == MulF(MulF(rho2, rho2), rho)
      C4 == MulF(A11, rho2)
  IN ZScale + MulF(C1, rho) + MulF(C2, rho2) - MulF(C3, rho5)
       + MulF(DivF(MulF(MulF(A10, ZScale + C4), rho2), PowF(T, 3)), ExpNeg(C4))

\* Z of one pass of Z_DPR1974 at reduced density rho.
DPR_Z(T, rho) ==
  LET A1 == Fx(3151, 10000)
      A2 == Fx(-10467, 10000)
      A3 == Fx(-5783, 10000)
      A4 == Fx(5353, 10000)
      A5 == Fx(-6123, 10000)
      A6 == Fx(-1049, 10000)
      A7 == Fx(6816, 10000)
      A8 == Fx(6845, 10000)
      B1 == A1 + DivF(A2, T) + DivF(A3, PowF(T, 3))
      B2 == A4 + DivF(A5, T)
      B3 == DivF(MulF(A5, A6), T)
      B4 == DivF(A7, PowF(T, 3))
      B5 == MulF(MulF(A8, rho), rho)
  IN ZScale + MulF(B1, rho) + MulF(B2, PowF(rho, 2)) + MulF(B3, PowF(rho, 5))
       + MulF(MulF(MulF(B4, MulF(rho, rho)), ZScale + B5), ExpNeg(B5))

\* The constants and the Newton functions of Z_RedlichKwong1949.
RK_u == Fx(2599, 10000)

\* Math.pow(Tpr, n + 1/2)
RK_Tpow(T, n) == MulF(PowF(T, n), SqrtF(T))

RK_A(P, T) == DivF(P, MulF(MulF(9 * ZScale, RK_u), RK_Tpow(T, 2)))

RK_b(P, T) == DivF(MulF(P, RK_u), MulF(3 * ZScale, T))

RK_AB(P, T) == DivF(PowF(P, 2), MulF(27 * ZScale, RK_Tpow(T, 3)))

\* b * b + b - A
RK_k(P, T) == MulF(RK_b(P, T), RK_b(P, T)) + RK_b(P, T) - RK_A(P, T)

RK_f(P, T, Zold) ==
  PowF(Zold, 3) - PowF(Zold, 2) - MulF(RK_k(P, T), Zold) - RK_AB(P, T)

RK_df(P, T, Zold) == 3 * PowF(Zold, 2) - 2 * Zold - RK_k(P, T)

\* Math.pow(10, y)
Pow10F(y) == ExpF(MulF(y, Ln10F))

\* The closed form of Z_BrillBeggs1974.
BB_Z(P, T) ==
  LET A == MulF(Fx(139, 100), SqrtF(T - Fx(92, 100))) - MulF(Fx(36, 100), T)
             - Fx(101, 1000)
      b == MulF(Fx(62, 100) - MulF(Fx(23, 100), T), P)
             + MulF(DivF(Fx(66, 1000), T - Fx(86, 100)) - Fx(37, 1000), PowF(P, 2))
             + MulF(MulF(Fx(32, 100), PowF(P, 6)), Pow10F(-(9 * (T - ZScale))))
      c == Fx(132, 1000) - MulF(Fx(32, 100), DivF(LnF(T), Ln10F))
      d == Pow10F(Fx(3106, 10000) - MulF(Fx(49, 100), T)
                    + MulF(Fx(1824, 10000), PowF(T, 2)))
  IN A + DivF(ZScale - A, ExpF(b))
       + MulF(c, IF P = 0 THEN 0 ELSE ExpF(MulF(d, LnF(P))))

\* The call returns out.
ZReturn(out) ==
  /\ zpc' = "returned"
  /\ zout' = out
  /\ UNCHANGED <<zreq, iteration, zcur, zold, zZ, zfinite>>

\* The call throws.
ZRaise ==
  /\ zpc' = "raised"
  /\ zout' = ZError
  /\ UNCHANGED <<zreq, iteration, zcur, zold, zZ, zfinite>>

\* The loop of a correlation starts from the iterate first.
ZEnterLoop(loop, first) ==
  /\ zpc' = loop
  /\ iteration' = 0
  /\ zcur' = first
  /\ zold' = first
  /\ zfinite' = TRUE
  /\ UNCHANGED <<zreq, zZ, zout>>

\* One pass of a solver loop: Z is the pass's z, new the updated iterate,
\* defined is FALSE when the update divides by zero, and the pass returns Z
\* when the new iterate is within 1 / tolInv of the old one.
ZPass(Z, new, defined, tolInv) ==
  IF iteration < maxIter
  THEN IF zfinite /\ defined
       THEN /\ zcur' = new
            /\ zold' = zcur
            /\ zZ' = Z
            /\ IF WithinTol(new, zcur, tolInv)
               THEN /\ zpc' = "returned"
                    /\ zout' = ZValue(Z)
                    /\ UNCHANGED <<zreq, iteration, zfinite>>
               ELSE /\ iteration' = iteration + 1
                    /\ UNCHANGED <<zreq, zpc, zfinite, zout>>
       ELSE /\ zfinite' = FALSE
            /\ iteration' = iteration + 1
            /\ UNCHANGED <<zreq, zpc, zcur, zold, zZ, zout>>
  ELSE ZReturn(ZSentinel)

\* A faulty z_gas: the test P_pr > 0 && T_pr > 0 left out.
z_gas_unguarded ==
  /\ zpc = "z_gas"
  /\ UNCHANGED <<iprvars, tubvars>>
  /\ CASE zreq.method = 0 ->
            /\ zpc' = "Z_DAK1975"
            /\ UNCHANGED <<zreq, iteration, zcur, zold, zZ, zfinite, zout>>
       [] zreq.method = 1 ->
            /\ zpc' = "Z_DPR1974"
            /\ UNCHANGED <<zreq, iteration, zcur, zold, zZ, zfinite, zout>>
       [] zreq.method = 3 ->
            /\ zpc' = "Z_RedlichKwong1949"
            /\ UNCHANGED <<zreq, iteration, zcur, zold, zZ, zfinite, zout>>
       [] zreq.method = 4 ->
            /\ zpc' = "Z_BrillBeggs1974"
            /\ UNCHANGED <<zreq, iteration, zcur, zold, zZ, zfinite, zout>>
       [] OTHER -> ZReturn(ZNaN)

z_gas ==
  /\ zpc = "z_gas"
  /\ UNCHANGED <<iprvars, tubvars>>
  /\ IF zreq.P_pr > 0 /\ zreq.T_pr > 0
     THEN CASE zreq.method = 0 ->
                 /\ zpc' = "Z_DAK1975"
                 /\ UNCHANGED <<zreq, iteration, zcur, zold, zZ, zfinite, zout>>
            [] zreq.method = 1 ->
                 /\ zpc' = "Z_DPR1974"
                 /\ UNCHANGED <<zreq, iteration, zcur, zold, zZ, zfinite, zout>>
            [] zreq.method = 3 ->
                 /\ zpc' = "Z_RedlichKwong1949"
                 /\ UNCHANGED <<zreq, iteration, zcur, zold, zZ, zfinite, zout>>
            [] zreq.method = 4 ->
                 /\ zpc' = "Z_BrillBeggs1974"
                 /\ UNCHANGED <<zreq, iteration, zcur, zold, zZ, zfinite, zout>>
            [] OTHER -> ZReturn(ZNaN)
     ELSE ZReturn(ZNaN)

Z_DAK1975 ==
  /\ zpc \in {"Z_DAK1975", "Z_DAK1975:loop"}
  /\ UNCHANGED <<iprvars, tubvars>>
  /\ IF zpc = "Z_DAK1975"
     THEN IF ~DAK_domain(zreq.P_pr, zreq.T_pr) THEN ZRaise
          ELSE ZEnterLoop("Z_DAK1975:loop", rho_guess(zreq.P_pr, zreq.T_pr))
     ELSE LET Z == DAK_Z(zreq.T_pr, zcur)
              den == MulF(Z, zreq.T_pr)
              rho_pr == IF den = 0 THEN 0
                        ELSE DivF(MulF(Fx(27, 100), zreq.P_pr), den)
          IN ZPass(Z, rho_pr, den # 0, Pow10(6))

Z_DPR1974 ==
  /\ zpc \in {"Z_DPR1974", "Z_DPR1974:loop"}
  /\ UNCHANGED <<iprvars, tubvars>>
  /\ IF zpc = "Z_DPR1974"
     THEN IF ~DPR_domain(zreq.P_pr, zreq.T_pr) THEN ZRaise
          ELSE ZEnterLoop("Z_DPR1974:loop", rho_guess(zreq.P_pr, zreq.T_pr))
     ELSE LET Z == DPR_Z(zreq.T_pr, zcur)
              den == MulF(Z, zreq.T_pr)
              newRho == IF den = 0 THEN 0
                        ELSE DivF(MulF(Fx(27, 100), zreq.P_pr), den)
          IN ZPass(Z, newRho, den # 0, Pow10(6))

Z_RedlichKwong1949 ==
  /\ zpc \in {"Z_RedlichKwong1949", "Z_RedlichKwong1949:loop"}
  /\ UNCHANGED <<iprvars, tubvars>>
  /\ IF zpc = "Z_RedlichKwong1949"
     THEN IF ~RK_domain(zreq.P_pr, zreq.T_pr) THEN ZRaise
          ELSE ZEnterLoop("Z_RedlichKwong1949:loop", ZScale)
     ELSE LET f == RK_f(zreq.P_pr, zreq.T_pr, zcur)
              df == RK_df(zreq.P_pr, zreq.T_pr, zcur)
              Z == IF df = 0 THEN 0 ELSE zcur - DivF(f, df)
          IN ZPass(Z, Z, df # 0, Pow10(5))

Z_BrillBeggs1974 ==
  /\ zpc = "Z_BrillBeggs1974"
  /\ UNCHANGED <<iprvars, tubvars>>
  /\ IF BB_domain(zreq.P_pr, zreq.T_pr)
     THEN ZReturn(ZValue(BB_Z(zreq.P_pr, zreq.T_pr)))
     ELSE ZRaise

(***************************************************************************)
(* Decimal floating point for the gas correlations, the friction factor    *)
(* and the outflow generators, whose quantities span many magnitudes.  A   *)
(* finite number is m * 10^e with an eight-digit mantissa m (or m = 0);    *)
(* NaN and the infinities follow the IEEE-754 rules of the operators.      *)
(* Sums, products and quotients are truncated to the eight digits; the     *)
(* exponential and the logarithm carry four decimals.                      *)
(***************************************************************************)
DNaN == [t |-> "nan", m |-> 0, e |-> 0]

DPInf == [t |-> "pinf", m |-> 0, e |-> 0]

DNInf == [t |-> "ninf", m |-> 0, e |-> 0]

DZero == [t |-> "fin", m |-> 0, e |-> 0]

\* m * 10^e with the mantissa brought to eight digits.
RECURSIVE DNum(_, _)
DNum(m, e) ==
  IF m = 0 THEN DZero
  ELSE IF m >= 100000000 \/ m <= -100000000
  THEN DNum(SgnI(m) * (AbsI(m) \div 10), e + 1)
  ELSE IF m < 10000 /\ m > -10000 THEN DNum(m * 10000, e - 4)
  ELSE IF m < 1000000 /\ m > -1000000 THEN DNum(m * 100, e - 2)
  ELSE IF m < 10000000 /\ m > -10000000 THEN DNum(m * 10, e - 1)
  ELSE [t |-> "fin", m |-> m, e |-> e]

\* The integer n, and the decimal literal n / 10^k.
DInt(n) == DNum(n, 0)

DDec(n, k) == DNum(n, -k)

DOne == DInt(1)

DIsNaN(x) == x.t = "nan"

DIsFinite(x) == x.t = "fin"

DSign(x) ==
  CASE x.t = "pinf" -> 1
    [] x.t = "ninf" -> -1
    [] x.t = "nan" -> 0
    [] OTHER -> SgnI(x.m)

DInfOf(sign) == IF sign > 0 THEN DPInf ELSE DNInf

DNeg(x) ==
  CASE x.t = "nan" -> DNaN
    [] x.t = "pinf" -> DNInf
    [] x.t = "ninf" -> DPInf
    [] OTHER -> [x EXCEPT !.m = -x.m]

\* x + y: the smaller term lo is shifted to the exponent of the larger hi.
DAddShift(hi, lo) ==
  IF hi.e - lo.e > 8 THEN hi
  ELSE DNum(hi.m + SgnI(lo.m) * (AbsI(lo.m) \div Pow10(hi.e - lo.e)), hi.e)

DAdd(x, y) ==
  CASE DIsNaN(x) \/ DIsNaN(y) -> DNaN
    [] ~DIsFinite(x) /\ ~DIsFinite(y) -> IF x.t = y.t THEN x ELSE DNaN
    [] ~DIsFinite(x) -> x
    [] ~DIsFinite(y) -> y
    [] x.m = 0 -> y
    [] y.m = 0 -> x
    [] x.e >= y.e -> DAddShift(x, y)
    [] OTHER -> DAddShift(y, x)

DSub(x, y) == DAdd(x, DNeg(y))

\* x * y: the leading eight digits of the sixteen-digit product, formed
\* from the halves ah, al, bh, bl of the mantissas.
DMulDigits(sign, e, top, mid) ==
  IF top >= 10000000
  THEN DNum(sign * top, e + 8)
  ELSE DNum(sign * (top * 10 + (mid % 10000) \div 1000), e + 7)

DMulMid(sign, e, hh, mid) == DMulDigits(sign, e, hh + mid \div 10000, mid)

DMulHalves(sign, e, ah, al, bh, bl) ==
  DMulMid(sign, e, ah * bh, ah * bl + al * bh + (al * bl) \div 10000)

DMulAbs(sign, e, a, b) ==
  DMulHalves(sign, e, a \div 10000, a % 10000, b \div 10000, b % 10000)

DMul(x, y) ==
  CASE DIsNaN(x) \/ DIsNaN(y) -> DNaN
    [] ~DIsFinite(x) \/ ~DIsFinite(y) ->
         IF DSign(x) * DSign(y) = 0 THEN DNaN ELSE DInfOf(DSign(x) * DSign(y))
    [] x.m = 0 \/ y.m = 0 -> DZero
    [] OTHER -> DMulAbs(SgnI(x.m) * SgnI(y.m), x.e + y.e, AbsI(x.m), AbsI(y.m))

\* x / y, digit by digit.
DDivAbs(sign, e, a, b) ==
  IF a >= b
  THEN DNum(sign * ((a \div b) * 10000000 + DivDigits(a % b, b, 7)), e - 7)
  ELSE DNum(sign * DivDigits(a, b, 8), e - 8)

DDiv(x, y) ==
  CASE DIsNaN(x) \/ DIsNaN(y) -> DNaN
    [] ~DIsFinite(x) ->
         IF ~DIsFinite(y) THEN DNaN
         ELSE DInfOf(DSign(x) * (IF DSign(y) < 0 THEN -1 ELSE 1))
    [] ~DIsFinite(y) -> DZero
    [] y.m = 0 -> IF x.m = 0 THEN DNaN ELSE DInfOf(SgnI(x.m))
    [] x.m = 0 -> DZero
    [] OTHER -> DDivAbs(SgnI(x.m) * SgnI(y.m), x.e - y.e, AbsI(x.m), AbsI(y.m))

\* x < y; FALSE when either is NaN.
DLt(x, y) ==
  CASE DIsNaN(x) \/ DIsNaN(y) -> FALSE
    [] x.t = "pinf" \/ y.t = "ninf" -> FALSE
    [] x.t = "ninf" \/ y.t = "pinf" -> TRUE
    [] SgnI(x.m) # SgnI(y.m) -> SgnI(x.m) < SgnI(y.m)
    [] x.m = 0 -> FALSE
    [] x.m > 0 -> x.e < y.e \/ (x.e = y.e /\ x.m < y.m)
    [] OTHER -> x.e > y.e \/ (x.e = y.e /\ x.m < y.m)

DLe(x, y) == ~DIsNaN(x) /\ ~DIsNaN(y) /\ ~DLt(y, x)

DGt(x, y) == DLt(y, x)

DGe(x, y) == DLe(y, x)

\* Math.max, Math.min (NaN if either is NaN) and Math.abs.
DMax(x, y) ==
  IF DIsNaN(x) \/ DIsNaN(y) THEN DNaN ELSE IF DLt(x, y) THEN y ELSE x

DMin(x, y) ==
  IF DIsNaN(x) \/ DIsNaN(y) THEN DNaN ELSE IF DLt(y, x) THEN y ELSE x

DAbs(x) == IF DSign(x) < 0 THEN DNeg(x) ELSE x

\* A number of the generators' exact arithmetic, as a decimal float.
DOfNum(x) ==
  CASE x.t = "fin" -> DDiv(DInt(x.n), DInt(x.d))
    [] x.t = "pinf" -> DPInf
    [] x.t = "ninf" -> DNInf
    [] OTHER -> DNaN

\* A fixed-point quantity as a decimal float, and back (truncated; for a
\* finite x below 10^5 in magnitude).
DOfFx(v) == DNum(v, -4)

FxOfD(x) ==
  IF x.e + 4 >= 0 THEN x.m * Pow10(x.e + 4)
  ELSE IF x.e + 4 < -8 THEN 0
  ELSE SgnI(x.m) * (AbsI(x.m) \div Pow10(-(x.e + 4)))

\* floor(x) for a finite x >= 0 below 10^9.
DFloor(x) ==
  IF x.e >= 0 THEN x.m * Pow10(x.e)
  ELSE IF x.e < -8 THEN 0
  ELSE x.m \div Pow10(-x.e)

\* x ** n for an integer n >= 0, by squaring.
DPowStep(x, n, h) == IF n % 2 = 0 THEN DMul(h, h) ELSE DMul(x, DMul(h, h))

RECURSIVE DPowInt(_, _)
DPowInt(x, n) ==
  IF n = 0 THEN DOne
  ELSE IF n = 1 THEN x
  ELSE DPowStep(x, n, DPowInt(x, n \div 2))

\* Math.sqrt: the integer root r of the leading digits, then one Newton step.
DSqrtStep(x, r) == DMul(DDec(5, 1), DAdd(r, DDiv(x, r)))

DSqrt(x) ==
  CASE DIsNaN(x) \/ DSign(x) < 0 -> DNaN
    [] x.t = "pinf" -> DPInf
    [] x.m = 0 -> DZero
    [] x.e % 2 = 0 -> DSqrtStep(x, DNum(ISqrt(x.m), x.e \div 2))
    [] OTHER -> DSqrtStep(x, DNum(ISqrt(x.m * 10), (x.e - 1) \div 2))

DLn10 == DDec(23025851, 7)

DEuler == DDec(27182818, 7)

\* Math.log: ln of the mantissa in fixed point, plus the decades.
DLn(x) ==
  CASE DIsNaN(x) \/ DSign(x) < 0 -> DNaN
    [] x.t = "pinf" -> DPInf
    [] x.m = 0 -> DNInf
    [] OTHER -> DAdd(DOfFx(LnF(x.m \div Pow10(3))), DMul(DInt(x.e + 7), DLn10))

\* Math.log10
DLog10(x) == DDiv(DLn(x), DLn10)

\* exp(f) for 0 <= f < 1: the series 1 + f/1 (1 + f/2 (1 + f/3 ( ... ))),
\* summed from the innermost term k outwards; acc is the sum so far.
RECURSIVE DExpSeries(_, _, _)
DExpSeries(f, k, acc) ==
  IF DIsNaN(acc) \/ k = 0 THEN acc
  ELSE DExpSeries(f, k - 1, DAdd(DOne, DMul(DDiv(f, DInt(k)), acc)))

\* Math.exp: e to the integer part k of a = |x| times the series of the
\* fraction, inverted for a negative x; beyond +-700 the result is
\* Infinity or 0.
DExpParts(a, k) ==
  DMul(DPowInt(DEuler, k), DExpSeries(DSub(a, DInt(k)), 12, DOne))

DExpAbs(a) == DExpParts(a, DFloor(a))

DInvertIf(negative, v) == IF negative THEN DDiv(DOne, v) ELSE v

DExp(x) ==
  CASE DIsNaN(x) -> DNaN
    [] x.t = "pinf" -> DPInf
    [] x.t = "ninf" -> DZero
    [] DLt(DInt(700), x) -> DPInf
    [] DLt(x, DInt(-700)) -> DZero
    [] OTHER -> DInvertIf(x.m < 0, DExpAbs(DAbs(x)))

\* TRUE for a finite x that is a whole number of at most three digits.
DIsSmallInt(x) ==
  /\ DIsFinite(x)
  /\ \/ x.m = 0
     \/ /\ x.e >= -7
        /\ x.e <= -5
        /\ x.m % Pow10(-x.e) = 0

\* Math.pow(x, y): a whole exponent by repeated multiplication, any other
\* by exp(y ln x).
DPow(x, y) ==
  CASE DIsNaN(y) -> DNaN
    [] DIsFinite(y) /\ y.m = 0 -> DOne
    [] DIsNaN(x) -> DNaN
    [] DIsSmallInt(y) ->
         DInvertIf(y.m < 0, DPowInt(x, AbsI(y.m) \div Pow10(-y.e)))
    [] DIsFinite(x) /\ x.m = 0 -> IF DSign(y) > 0 THEN DZero ELSE DPInf
    [] DSign(x) < 0 -> DNaN
    [] OTHER -> DExp(DMul(y, DLn(x)))

(***************************************************************************)
(* The z-factor as its callers see it: the outcome of a whole z_gas call,  *)
(* the loops of the solvers run to their end.                              *)
(***************************************************************************)
\* The loop of a solver as a search state: the iterate x, and the value
\* returned once a pass has converged.
ZSearch(x) == [done |-> FALSE, stuck |-> FALSE, x |-> x, out |-> ZNone]

\* One pass of the Newton loop of Z_RedlichKwong1949.  An update that
\* divides by zero leaves a non-finite iterate, which never converges.
RK_Test(s, df, Z) ==
  IF df = 0 THEN [s EXCEPT !.stuck = TRUE]
  ELSE IF WithinTol(Z, s.x, Pow10(5))
  THEN [s EXCEPT !.done = TRUE, !.out = ZValue(Z)]
  ELSE [s EXCEPT !.x = Z]

RK_Newton(s, f, df) == RK_Test(s, df, s.x - DivF(f, df))

RK_Pass(P, T, s) ==
  IF s.done \/ s.stuck THEN s
  ELSE RK_Newton(s, RK_f(P, T, s.x), RK_df(P, T, s.x))

\* n passes of the loop, one after the other.
RECURSIVE RK_Passes(_, _, _, _)
RK_Passes(P, T, n, s) ==
  IF s.done \/ s.stuck \/ n = 0 THEN s
  ELSE IF n = 1 THEN RK_Pass(P, T, s)
  ELSE RK_Passes(P, T, n - (n \div 2), RK_Passes(P, T, n \div 2, s))

\* Z_RedlichKwong1949 and Z_BrillBeggs1974 as a caller sees them.
RK_Result(s) == IF s.done THEN s.out ELSE ZSentinel

Z_RK_outcome(P, T) ==
  IF ~RK_domain(P, T) THEN ZError
  ELSE RK_Result(RK_Passes(P, T, maxIter, ZSearch(ZScale)))

Z_BB_outcome(P, T) == IF BB_domain(P, T) THEN ZValue(BB_Z(P, T)) ELSE ZError

(***************************************************************************)
(* The two density iterations as a caller sees them, in decimal floating   *)
(* point: eight digits resolve their tolerance of 1e-6, which the four     *)
(* decimals of the fixed-point solvers do not.                             *)
(***************************************************************************)
DSq(x) == DMul(x, x)

\* The coefficients of Z_DAK1975 that depend on Tpr alone; T2 and T3 are
\* the square and the cube of T.
DAK_CAt(T, T2, T3) ==
  [C1 |-> DAdd(DAdd(DAdd(DAdd(DDec(3265, 4), DDiv(DDec(-107, 2), T)),
                         DDiv(DDec(-5339, 4), T3)),
                    DDiv(DDec(1569, 5), DMul(T3, T))),
               DDiv(DDec(-5165, 5), DMul(T3, T2))),
   C2 |-> DAdd(DAdd(DDec(5475, 4), DDiv(DDec(-7361, 4), T)),
               DDiv(DDec(1844, 4), T2)),
   C3 |-> DMul(DDec(1056, 4),
               DAdd(DDiv(DDec(-7361, 4), T), DDiv(DDec(1844, 4), T2))),
   T3 |-> T3]

DAK_C(T) == DAK_CAt(T, DSq(T), DMul(DSq(T), T))

\* Z of one pass of Z_DAK1975 at reduced density rho; rho2 is its square
\* and C4 is A11 * rho2.
DAK_ZDAt(c, rho, rho2, C4) ==
  DAdd(DSub(DAdd(DAdd(DOne, DMul(c.C1, rho)), DMul(c.C2, rho2)),
            DMul(c.C3, DMul(DSq(rho2), rho))),
       DMul(DDiv(DMul(DMul(DDec(6134, 4), DAdd(DOne, C4)), rho2), c.T3),
            DExp(DNeg(C4))))

DAK_ZDSq(c, rho, rho2) == DAK_ZDAt(c, rho, rho2, DMul(DDec(721, 3), rho2))

DAK_ZD(c, rho) == DAK_ZDSq(c, rho, DSq(rho))

\* B1..B4 of Z_DPR1974; T3 is the cube of T.
DPR_CAt(T, T3) ==
  [B1 |-> DAdd(DAdd(DDec(31506237, 8), DDiv(DDec(-10467099, 7), T)),
               DDiv(DDec(-57832729, 8), T3)),
   B2 |-> DAdd(DDec(53530771, 8), DDiv(DDec(-61232032, 8), T)),
   B3 |-> DDiv(DMul(DDec(-61232032, 8), DDec(-10488813, 8)), T),
   B4 |-> DDiv(DDec(68157001, 8), T3)]

DPR_C(T) == DPR_CAt(T, DMul(DSq(T), T))

\* Z of one pass of Z_DPR1974 at reduced density rho; rho2 is its square
\* and B5 is A8 * rho * rho.
DPR_ZDAt(c, rho, rho2, B5) ==
  DAdd(DAdd(DAdd(DAdd(DOne, DMul(c.B1, rho)), DMul(c.B2, rho2)),
            DMul(c.B3, DMul(DSq(rho2), rho))),
       DMul(DMul(DMul(c.B4, rho2), DAdd(DOne, B5)), DExp(DNeg(B5))))

DPR_ZD(c, rho) ==
  DPR_ZDAt(c, rho, DSq(rho), DMul(DMul(DDec(68446549, 8), rho), rho))

\* One pass of the loop of Z_DAK1975 (method 0) or Z_DPR1974 (method 1):
\* Z at the iterate, the next iterate, the tolerance test.  k is
\* 0.27 * Ppr / Tpr and c the coefficients.  A NaN iterate fails every
\* later test.
DensityTest(s, Z, new) ==
  IF DIsNaN(new) THEN [s EXCEPT !.stuck = TRUE]
  ELSE IF DLt(DAbs(DSub(new, s.x)), DDec(1, 6))
  THEN [s EXCEPT !.done = TRUE, !.out = Z]
  ELSE [s EXCEPT !.x = new]

DensityNext(k, s, Z) == DensityTest(s, Z, DDiv(k, Z))

DensityPass(method, c, k, s) ==
  IF s.done \/ s.stuck THEN s
  ELSE DensityNext(k, s, IF method = 0 THEN DAK_ZD(c, s.x) ELSE DPR_ZD(c, s.x))

RECURSIVE DensityPasses(_, _, _, _, _)
DensityPasses(method, c, k, n, s) ==
  IF s.done \/ s.stuck \/ n = 0 THEN s
  ELSE IF n = 1 THEN DensityPass(method, c, k, s)
  ELSE DensityPasses(method, c, k, n - (n \div 2),
                     DensityPasses(method, c, k, n \div 2, s))

\* while (iteration < maxIter) ...; return 999
DensityResult(s) == IF s.done THEN s.out ELSE DInt(999)

DensityLoop(method, Ppr, Tpr) ==
  DensityResult(DensityPasses(method, IF method = 0 THEN DAK_C(Tpr) ELSE DPR_C(Tpr),
                              DDiv(DMul(DDec(27, 2), Ppr), Tpr), maxIter,
                              ZSearch(DMul(DDec(27, 2), DDiv(Ppr, Tpr)))))

(***************************************************************************)
(* Gas properties: getPseudoCritical, Tr_reduced, Pr_reduced, z_PT,        *)
(* gas_dens_PT, gas_viscosity (method 0) and gas_visc_PT.  A call's        *)
(* outcome is a number (kind "value", NaN included) or a raised error.     *)
(***************************************************************************)
GValue(x) == [kind |-> "value", x |-> x]

GError == [kind |-> "error", x |-> DNaN]

getPseudoCritical(Sg_g) ==
  [Ppc |-> DSub(DInt(677), DMul(DInt(15), Sg_g)),
   Tpc |-> DAdd(DInt(168), DMul(DInt(325), Sg_g))]

Tr_reduced(T, Tpc) == DDiv(DAdd(T, DDec(45967, 2)), Tpc)

Pr_reduced(P, Ppc) == DDiv(P, Ppc)

\* The correlation's range check: 0 < Ppr < PprMax, 1 < Tpr <= 3.
Density_domain(Ppr, Tpr, PprMax) ==
  /\ DGt(Ppr, DZero) /\ DLt(Ppr, DInt(PprMax))
  /\ DGt(Tpr, DOne) /\ DLe(Tpr, DInt(3))

\* An outcome of the fixed-point correlations as a gas property.
GOfZ(out) ==
  CASE out.kind = "value" -> GValue(DOfFx(out.v))
    [] out.kind = "nan" -> GValue(DNaN)
    [] OTHER -> GError

\* z_gas(P_pr, T_pr, method) for the reduced properties a caller computed.
z_gas_of(Ppr, Tpr, method) ==
  IF DGt(Ppr, DZero) /\ DGt(Tpr, DZero)
  THEN CASE method \in {0, 1} ->
              IF Density_domain(Ppr, Tpr, IF method = 0 THEN 30 ELSE 15)
              THEN GValue(DensityLoop(method, Ppr, Tpr)) ELSE GError
         [] method = 3 -> GOfZ(Z_RK_outcome(FxOfD(Ppr), FxOfD(Tpr)))
         [] method = 4 -> GOfZ(Z_BB_outcome(FxOfD(Ppr), FxOfD(Tpr)))
         [] OTHER -> GValue(DNaN)
  ELSE GValue(DNaN)

\* z_gas at the reduced properties of P and T for the pseudo-criticals pc0.
z_reduced(P, T, pc0, methodz) ==
  z_gas_of(Pr_reduced(P, pc0.Ppc), Tr_reduced(T, pc0.Tpc), methodz)

z_PT(P, T, Sg_g, methodz) ==
  IF DGe(Sg_g, DDec(56, 2))
  THEN z_reduced(P, T, getPseudoCritical(Sg_g), methodz)
  ELSE GError

gas_dens_PT(P, T, Sg_g, Z) ==
  DDiv(DMul(P, DMul(Sg_g, DDec(2897, 2))),
       DMul(DMul(Z, DDec(10731, 3)), DAdd(T, DDec(45967, 2))))

\* Lee, Gonzales and Eakin (method 0): the viscosity from XK, x and the
\* density in g/cc.
gas_viscosity_LGE(gasdens, XK, x) ==
  DMul(DDiv(XK, DInt(10000)),
       DExp(DMul(x, DPow(gasdens, DAdd(DDec(111, 2), DMul(DDec(4, 2), x))))))

gas_viscosity_at(gasdens, Mwg, Tk) ==
  gas_viscosity_LGE(gasdens,
                    DDiv(DMul(DAdd(DDec(777, 2), DMul(DDec(63, 4), Mwg)),
                              DPow(Tk, DDec(15, 1))),
                         DAdd(DAdd(DDec(1224, 1), DMul(DDec(129, 1), Mwg)), Tk)),
                    DAdd(DAdd(DDec(257, 2), DDiv(DDec(19145, 1), Tk)),
                         DMul(DDec(95, 4), Mwg)))

gas_viscosity(P, T, Sg_g, Z) ==
  IF DLt(Sg_g, DDec(56, 2)) THEN DZero
  ELSE gas_viscosity_at(DDiv(DMul(gas_dens_PT(P, T, Sg_g, Z), DDec(45359237, 5)),
                             DDec(283168466, 4)),
                        DMul(Sg_g, DDec(2897, 2)), DAdd(T, DInt(310)))

\* The viscosity for the outcome Z of z_gas.
gas_visc_of(P, T, Sg_g, Z) ==
  IF Z.kind = "error" THEN GError ELSE GValue(gas_viscosity(P, T, Sg_g, Z.x))

gas_visc_PT(P, T, Sg_g, methodz) ==
  gas_visc_of(P, T, Sg_g, z_reduced(P, T, getPseudoCritical(Sg_g), methodz))

(***************************************************************************)
(* Gas inflow: gas_calculatePseudosteadyIPR, gas_calculateSteadyStateIPR   *)
(* and gas_calculateTransientIPR.  Pressures and the spacing stay exact    *)
(* rationals; the gas properties and the rate are decimal floats.          *)
(***************************************************************************)
\* if (!Number.isFinite(p_avg)) p_avg = Number(pavg)
gas_p_avg(r) ==
  IF IsFinite(r.p_avg) THEN r.p_avg
  ELSE IF r.pavg = Undefined THEN NaN ELSE r.pavg

\* The pressure a gas generator starts from.
GasRefPressure(r) ==
  CASE r.flowRegime = "Transient" -> r.pi
    [] r.flowRegime = "Steady-State" -> r.pe
    [] OTHER -> gas_p_avg(r)

\* The hard guards of gas_calculatePseudosteadyIPR, its denom included.
gas_pss_denom(r) == Add(Sub(Ln(Div(r.re, r.rw)), Fin(3, 4)), r.s)

gas_pss_guards(r) ==
  /\ IsFinite(gas_p_avg(r)) /\ Gt(gas_p_avg(r), Zero)
  /\ IsFinite(r.k) /\ Gt(r.k, Zero)
  /\ IsFinite(r.h) /\ Gt(r.h, Zero)
  /\ IsFinite(r.rw) /\ Gt(r.rw, Zero)
  /\ IsFinite(r.re) /\ Gt(r.re, r.rw)
  /\ IsFinite(r.T_res)
  /\ IsFinite(r.sg_g)
  /\ IsFinite(gas_pss_denom(r)) /\ Gt(gas_pss_denom(r), Zero)

\* 1424 * (T_res + 459.67)
gas_1424T(r) == Mul(Int2Num(1424), Add(r.T_res, Fin(45967, 100)))

\* Math.log(t) + Math.log(k / (phi*0.01*mu(pi)*ct*rw*rw)) - 3.23 + 0.869*s
gas_logTerm(r, mu) ==
  DAdd(DSub(DAdd(DLn(DOfNum(r.t)),
                 DLn(DDiv(DOfNum(r.k),
                          DMul(DMul(DMul(DMul(DMul(DOfNum(r.phi), DDec(1, 2)), mu),
                                         DOfNum(r.ct)),
                                    DOfNum(r.rw)),
                               DOfNum(r.rw))))),
            DDec(323, 2)),
       DMul(DDec(869, 3), DOfNum(r.s)))

\* factor of the transient generator for the viscosity mu at pi.
gas_transient_factor(r, mu) ==
  IF mu.kind = "error" THEN GError
  ELSE GValue(DDiv(DOfNum(Mul(r.k, r.h)),
                   DMul(DOfNum(gas_1424T(r)), gas_logTerm(r, mu.x))))

\* J of the pseudosteady and steady-state generators, factor of the
\* transient one; the transient factor raises when the viscosity at pi does.
gas_factor(r) ==
  CASE r.flowRegime = "Pseudosteady-State" ->
         GValue(DDiv(DOfNum(Mul(r.k, r.h)),
                     DMul(DOfNum(gas_1424T(r)), DOfNum(gas_pss_denom(r)))))
    [] r.flowRegime = "Steady-State" ->
         GValue(DDiv(DOfNum(Mul(r.k, r.h)),
                     DMul(DOfNum(gas_1424T(r)),
                          DOfNum(Add(Ln(Div(r.re, r.rw)), r.s)))))
    [] OTHER ->
         gas_transient_factor(r, gas_visc_PT(DOfNum(r.pi), DOfNum(r.T_res),
                                             DOfNum(r.sg_g), 0))

\* The pressure the gas properties of a sample are evaluated at.
gas_Pmid(r, p_wf) == Div(Add(p_wf, GasRefPressure(r)), Int2Num(2))

\* z of a sample, as z_PT returns it.
gas_z_at(r, p_wf) ==
  z_PT(DOfNum(gas_Pmid(r, p_wf)), DOfNum(r.T_res), DOfNum(r.sg_g), r.zMethodCode)

\* !Number.isFinite(x) || x <= 0
NotPositive(x) == ~DIsFinite(x) \/ DLe(x, DZero)

\* getGasFlow(p_wf) with factor fac, for the viscosity mu and the z at the
\* sample's mid pressure; only the pseudosteady generator answers NaN for
\* a viscosity or a z that is not a positive number.
getGasFlow_of(r, fac, p_wf, mu, z) ==
  IF mu.kind = "error" \/ z.kind = "error" THEN GError
  ELSE IF r.flowRegime = "Pseudosteady-State"
          /\ (NotPositive(mu.x) \/ NotPositive(z.x))
  THEN GValue(DNaN)
  ELSE GValue(DMul(fac,
                   DDiv(DOfNum(Sub(Mul(GasRefPressure(r), GasRefPressure(r)),
                                   Mul(p_wf, p_wf))),
                        DMul(mu.x, z.x))))

getGasFlow(r, fac, p_wf) ==
  getGasFlow_of(r, fac, p_wf,
                gas_visc_PT(DOfNum(gas_Pmid(r, p_wf)), DOfNum(r.T_res),
                            DOfNum(r.sg_g), 0),
                gas_z_at(r, p_wf))

\* The loop a gas generator enters; 'Delta Flowrate' and any other method
\* return the curve as it is, empty.
GasLoop(method) ==
  CASE method \in {"Number of Points", ""} -> "Gas:NumPoints"
    [] method = "Delta Pressure" -> "Gas:DeltaP"
    [] OTHER -> "done"

\* The rate q of the sample p_wf is pushed, filtered out, or its evaluation
\* has raised.
GasPush(p_wf, q) ==
  IF q.kind = "error"
  THEN /\ pc' = "raised"
       /\ points' = points
  ELSE /\ pc' = pc
       /\ points' = IF req.flowRegime = "Pseudosteady-State" /\ ~DIsFinite(q.x)
                    THEN points
                    ELSE Append(points, Point(p_wf, q.x))

GasSample(fac, p_wf) == GasPush(p_wf, getGasFlow(req, fac, p_wf))

\* The sample a pass of the loop is about, and whether the loop goes on.
GasPressure(N) ==
  IF pc = "Gas:NumPoints" THEN CountPressure(GasRefPressure(req), N, i) ELSE cur

\* A faulty loop: the transient generator without its break at p_wf <= 0.
GasLoopGoesOn_noBreak(N) ==
  IF pc = "Gas:NumPoints"
  THEN Lt(Int2Num(i), N)
  ELSE IF req.flowRegime = "Transient" THEN WhileAboveZero(cur)
       ELSE WhileNotBelowZero(cur)

GasLoopGoesOn(N) ==
  IF pc = "Gas:NumPoints"
  THEN /\ Lt(Int2Num(i), N)
       /\ ~(req.flowRegime = "Transient" /\ Le(GasPressure(N), Zero))
  ELSE IF req.flowRegime = "Transient" THEN WhileAboveZero(cur)
       ELSE WhileNotBelowZero(cur)

\* One step of the gas generator the request runs, with its factor fac and
\* the spacing value val: its entry, or one pass through the loop the
\* spacing method selected.
GasStepWith(fac, val) ==
  /\ i < MaxSteps
  /\ UNCHANGED <<zvars, tubvars>>
  /\ req' = req
  /\ IF pc = "Gas"
     THEN /\ points' = points
          /\ pc' = IF req.flowRegime = "Pseudosteady-State" /\ ~gas_pss_guards(req)
                   THEN "done"
                   ELSE IF fac.kind = "error" THEN "raised"
                   ELSE GasLoop(MethodOf(req))
          /\ cur' = GasRefPressure(req)
          /\ i' = 0
     ELSE IF GasLoopGoesOn(PositiveOr(val, defaultN))
     THEN /\ GasSample(fac.x, GasPressure(PositiveOr(val, defaultN)))
          /\ i' = i + 1
          /\ cur' = IF pc = "Gas:NumPoints" THEN cur
                    ELSE Sub(cur, PositiveOr(val, Int2Num(100)))
     ELSE /\ pc' = "done"
          /\ UNCHANGED <<points, cur, i>>

GasStep == GasStepWith(gas_factor(req), OrZero(req.spacingValue))

GasRunning == pc \in {"Gas", "Gas:NumPoints", "Gas:DeltaP"}

gas_calculatePseudosteadyIPR ==
  /\ GasRunning
  /\ req.iprPhase = "Gas" /\ req.flowRegime = "Pseudosteady-State"
  /\ GasStep

gas_calculateSteadyStateIPR ==
  /\ GasRunning
  /\ req.iprPhase = "Gas" /\ req.flowRegime = "Steady-State"
  /\ GasStep

gas_calculateTransientIPR ==
  /\ GasRunning
  /\ req.iprPhase = "Gas" /\ req.flowRegime = "Transient"
  /\ GasStep

(***************************************************************************)
(* Pipe friction: fanningFromModel of friction.ts, in decimal floating     *)
(* point.                                                                  *)
(***************************************************************************)
\* The model selectors; the en dash of the source's names is written "-".
FrictionModels ==
  {"Chen (1979)", "Swamee-Jain (1976)", "Colebrook-White (1939)",
   "Haaland (1983)", "Churchill (1977)"}

\* 64 / Re, the Darcy (Moody) laminar factor.
fanning_laminar_darcy(Re) == DDiv(DInt(64), Re)

\* 16 / Re
fanning_laminar(Re) == DDiv(DInt(16), Re)

\* 1 / (x * x)
DInvSq(x) == DDiv(DOne, DMul(x, x))

fanning_SwameeJain(Re, rel) ==
  LET lg == DLog10(DAdd(DDiv(rel, DDec(37, 1)),
                        DDiv(DDec(574, 2), DPow(Re, DDec(9, 1)))))
      fM == DDiv(DDec(25, 2), DPow(lg, DInt(2)))
  IN DDiv(fM, DInt(4))

\* The n remaining passes of the Colebrook-White fixed point from fM.
\* One pass of the loop of the Colebrook-White case:
\* rhs = -2 log10(rel / 3.7 + 2.51 / (Re sqrt(fM))); fM = 1 / (rhs * rhs)
ColebrookUpdate(Re, rel, fM) ==
  DInvSq(DMul(DInt(-2),
              DLog10(DAdd(DDiv(rel, DDec(37, 1)),
                          DDiv(DDec(251, 2), DMul(Re, DSqrt(fM)))))))

\* n passes from fM (a NaN stays a NaN through every pass).
RECURSIVE ColebrookPasses(_, _, _, _)
ColebrookPasses(Re, rel, n, fM) ==
  IF DIsNaN(fM) \/ n = 0 THEN fM
  ELSE ColebrookPasses(Re, rel, n - 1, ColebrookUpdate(Re, rel, fM))

\* A faulty loop condition: i < 24
ColebrookLoop_short(n) == n < 24

\* The condition of the loop of the Colebrook-White case: i < 25
ColebrookLoop(n) == n < 25

fanning_ColebrookWhite(Re, rel) ==
  DDiv(ColebrookPasses(Re, rel, 25, DDec(2, 2)), DInt(4))

fanning_Haaland(Re, rel) ==
  LET invSqrt == DMul(DDec(-18, 1),
                      DLog10(DAdd(DPow(DDiv(rel, DDec(37, 1)), DDec(111, 2)),
                                  DDiv(DDec(69, 1), Re))))
      fM == DInvSq(invSqrt)
  IN DDiv(fM, DInt(4))

fanning_Churchill(Re, rel) ==
  LET A == DPow(DMul(DDec(2457, 3),
                     DLn(DAdd(DDiv(DOne, DPow(DDiv(DInt(7), Re), DDec(9, 1))),
                              DMul(DDec(27, 2), rel)))),
                DInt(16))
      B == DPow(DDiv(DInt(37530), Re), DInt(16))
      fM == DMul(DInt(8),
                 DPow(DAdd(DPow(DDiv(DInt(8), Re), DInt(12)),
                           DDiv(DOne, DPow(DAdd(A, B), DDec(15, 1)))),
                      DDiv(DOne, DInt(12))))
  IN DDiv(fM, DInt(4))

fanning_Chen(Re, rel) ==
  LET A == DMul(DInt(-2),
                DLog10(DSub(DDiv(rel, DDec(37065, 4)),
                            DMul(DDiv(DDec(50452, 4), Re),
                                 DLog10(DAdd(DDiv(DPow(rel, DDec(11098, 4)),
                                                  DDec(28257, 4)),
                                             DPow(DDiv(DDec(7149, 3), Re),
                                                  DDec(8981, 4))))))))
      fM == DInvSq(A)
  IN DDiv(fM, DInt(4))

\* The correlation the switch selects: Chen for its own name and for any
\* name the switch does not know.
fanning_turbulent(Re, rel, model) ==
  CASE model = "Swamee-Jain (1976)" -> fanning_SwameeJain(Re, rel)
    [] model = "Colebrook-White (1939)" -> fanning_ColebrookWhite(Re, rel)
    [] model = "Haaland (1983)" -> fanning_Haaland(Re, rel)
    [] model = "Churchill (1977)" -> fanning_Churchill(Re, rel)
    [] OTHER -> fanning_Chen(Re, rel)

fanningFromModel(Re, rel, model) ==
  IF DLt(Re, DInt(2100)) THEN fanning_laminar(Re)
  ELSE fanning_turbulent(Re, rel, model)

(***************************************************************************)
(* The requests explored.  Numeric fields are the base-unit values the     *)
(* form hands over; the degenerate ones (re = rw, t = 0, a count of one, a *)
(* bowedness outside [0.8, 1]) are inputs the generators can be given.     *)
(***************************************************************************)
\* Largest explicit 'Number of Points' value explored.
MaxN == 4

SpacingChoices ==
  ({"Number of Points"} \X
     ({Undefined, Fin(5, 2)} \cup {Int2Num(n) : n \in 1..MaxN}))
  \cup ({"Delta Pressure"} \X
     {Undefined, Int2Num(500), Int2Num(700), Int2Num(1000)})
  \cup ({"Delta Flowrate"} \X {Undefined, Int2Num(40), Int2Num(400)})
  \cup ({"", "Logarithmic"} \X {Undefined})

\* Skin factors: a positive, a zero and a negative denominator for each regime.
SkinChoices(regime) ==
  IF regime = "Transient" THEN {Zero, Int2Num(10), Int2Num(-100)}
  ELSE {Zero, Fin(3, 4), Int2Num(-9)}

\* <<re, rw>>; the transient generator reads rw alone.
Radii(regime) ==
  IF regime = "Transient" THEN { <<Int2Num(1000), Fin(3, 10)>> }
  ELSE { <<Int2Num(1000), Fin(3, 10)>>, <<Fin(3, 10), Fin(3, 10)>> }

\* Elapsed time (hr); only the transient generator reads it.
Times(regime) ==
  IF regime = "Transient" THEN {Int2Num(10), Zero} ELSE {Int2Num(10)}

\* Permeability (mD), formation volume factor and viscosity (cp) of the
\* liquid requests.
Rock(regime) ==
  IF regime = "Transient"
  THEN [k |-> Fin(813, 10), Bo |-> One, muo |-> One]
  ELSE [k |-> Int2Num(50), Bo |-> Fin(6, 5), muo |-> Int2Num(2)]

LiquidRequestsOf(regime) ==
  { [iprPhase |-> "Liquid", flowRegime |-> regime,
     zMethod |-> "Dranchuk & Abou-Kassem - 1975", zMethodCode |-> -1,
     spacingMethod |-> sp[1], spacingValue |-> sp[2],
     k |-> Rock(regime).k, h |-> Int2Num(20),
     Bo |-> Rock(regime).Bo, muo |-> Rock(regime).muo,
     s |-> skin, pi |-> Int2Num(3000), p_avg |-> Int2Num(3000),
     pe |-> Int2Num(3000), t |-> time, phi |-> Int2Num(20),
     ct |-> Fin(1, 10000), re |-> rr[1], rw |-> rr[2],
     pb |-> Int2Num(3000), a |-> One] :
    sp \in SpacingChoices,
    skin \in SkinChoices(regime),
    time \in Times(regime),
    rr \in Radii(regime) }

LiquidRequests == UNION { LiquidRequestsOf(regime) : regime \in LiquidRegimes }

\* The bowedness values the form accepts (fieldConfigs: 0.8 <= a <= 1).
AcceptedBowedness == {Fin(4, 5), Fin(9, 10), One}

\* <<re, rw, s>>: ln(re/rw) - 0.75 + s is 10, and 0.
TwoPhaseGeometry ==
  { <<Fin(6965, 10), Fin(3, 10), Int2Num(3)>>,
    <<Fin(3, 10), Fin(3, 10), Fin(3, 4)>> }

TwoPhaseRequests ==
  { [iprPhase |-> "Two-phase", flowRegime |-> "Pseudosteady-State",
     zMethod |-> "Dranchuk & Abou-Kassem - 1975", zMethodCode |-> -1,
     spacingMethod |-> sp[1], spacingValue |-> sp[2],
     k |-> Fin(706, 10), h |-> Int2Num(2), Bo |-> One, muo |-> One,
     s |-> g[3], pi |-> pavg, p_avg |-> pavg, pe |-> pavg,
     t |-> Int2Num(10), phi |-> Int2Num(20), ct |-> Fin(1, 10000),
     re |-> g[1], rw |-> g[2], pb |-> Int2Num(3000), a |-> bow] :
    sp \in SpacingChoices,
    g \in TwoPhaseGeometry,
    pavg \in {Int2Num(2000), Int2Num(4000)},
    bow \in AcceptedBowedness \cup {Zero, Int2Num(-1), Int2Num(2)} }

\* (phase, regime) pairs that no generator handles.
UnhandledRequests ==
  { [r EXCEPT !.iprPhase = pr[1], !.flowRegime = pr[2]] :
    r \in { q \in TwoPhaseRequests :
              q.a = One /\ q.s = Int2Num(3) /\ q.p_avg = Int2Num(4000) },
    pr \in { <<"Two-phase", "Transient">>, <<"Two-phase", "Steady-State">>,
             <<"Liquid", "Unsteady">>, <<"Water", "Pseudosteady-State">> } }

Requests == LiquidRequests \cup TwoPhaseRequests \cup UnhandledRequests

\* The z-factor state while no z-factor call is being followed.
ZIdleRequest == [P_pr |-> 0, T_pr |-> 0, method |-> 0]

ZIdle ==
  /\ zreq = ZIdleRequest
  /\ zpc = "idle"
  /\ iteration = 0
  /\ zcur = 0
  /\ zold = 0
  /\ zZ = 0
  /\ zfinite = TRUE
  /\ zout = ZNone

(***************************************************************************)
(* Outflow: calculateOilOPR and calculateGasOPR of utils/opr.ts, in        *)
(* decimal floating point.  A request is the parameter bag; a field the    *)
(* caller left out is DUndefined.                                          *)
(***************************************************************************)
DUndefined == [t |-> "undefined", m |-> 0, e |-> 0]

\* Number(v)
DNumber(v) == IF v = DUndefined THEN DNaN ELSE v

\* The default of a destructured field.
DOrDefault(v, dflt) == IF v = DUndefined THEN dflt ELSE v

\* Math.sin(thetaDeg * Math.PI / 180) at the inclinations of the requests
\* explored, to eight digits.
DSinDeg(thetaDeg) ==
  CASE thetaDeg = DInt(90) -> DOne
    [] thetaDeg = DInt(30) -> DDec(49999999, 8)
    [] thetaDeg = DInt(0) -> DZero
    [] thetaDeg = DInt(-90) -> DInt(-1)
    [] OTHER -> DNaN

opr_thetaDeg(r) == DOrDefault(r.thetaDeg, DInt(90))

opr_eps(r) == DOrDefault(r.eps, DDec(6, 4))

opr_p_wh(r) == DOrDefault(r.p_wh, DZero)

opr_frictionModel(r) ==
  IF r.frictionModel = "undefined" THEN "Chen (1979)" ELSE r.frictionModel

opr_spacingMethod(r) ==
  IF r.spacingMethod = "undefined" THEN "Number of Points" ELSE r.spacingMethod

opr_D_ft(r) == DDiv(r.D_in, DInt(12))

\* A faulty roughness: eps taken as an absolute length whatever its size.
opr_rel_absolute(r) == DDiv(DOrDefault(r.eps, DDec(6, 4)), DDiv(r.D_in, DInt(12)))

\* eps_ft / D_ft, where eps_ft is eps * D_ft for eps <= 0.01
oil_rel(r) ==
  IF DLe(opr_eps(r), DDec(1, 2))
  THEN DDiv(DMul(opr_eps(r), opr_D_ft(r)), opr_D_ft(r))
  ELSE DDiv(opr_eps(r), opr_D_ft(r))

\* 0.433 * gamma * (L * Math.sin(thetaRad))
oil_deltaP_PE(r) ==
  DMul(DMul(DDec(433, 3), DDiv(r.rho, DDec(624, 1))),
       DMul(r.L, DSinDeg(opr_thetaDeg(r))))

oil_Re_of(r, q) ==
  DMax(DOne, DDiv(DMul(DMul(DDec(14777, 4), r.rho), q), DMul(r.D_in, r.muo)))

\* 7.35e-7 * fF * rho * q * q * L / Math.pow(D_in, 5)
oil_frictionDP(r, q) ==
  DDiv(DMul(DMul(DMul(DMul(DMul(DDec(735, 9),
                                fanningFromModel(oil_Re_of(r, q), oil_rel(r),
                                                 opr_frictionModel(r))),
                           r.rho), q), q), r.L),
       DPowInt(r.D_in, 5))

\* p_wh + deltaP_PE + frictionDP(q)
oil_p_wf(r, q) ==
  DAdd(DAdd(opr_p_wh(r), oil_deltaP_PE(r)), oil_frictionDP(r, q))

\* The rate span before the clamp: 1.25 times the hint, or the rate of
\* Re = 1e5 times 1.2.
oil_qSpan_raw(r) ==
  IF DIsFinite(r.qHint) /\ DGt(r.qHint, DZero)
  THEN DMul(r.qHint, DDec(125, 2))
  ELSE DMul(DDiv(DMul(DMul(DInt(100000), r.D_in), r.muo),
                 DMul(DDec(14777, 4), r.rho)),
            DDec(12, 1))

\* The clamp without its upper end.
oil_clamp_open(x) == DMax(x, DInt(300))

\* Math.min(Math.max(qSpan, 300), 20000)
oil_clamp(x) == DMin(DMax(x, DInt(300)), DInt(20000))

oil_qSpan(r) == oil_clamp(oil_qSpan_raw(r))

\* val > 0 ? val : dflt
DPositiveOr(val, dflt) == IF DGt(val, DZero) THEN val ELSE dflt

opr_val(r) == DNumber(r.spacingValue)

\* dq of 'Delta Flowrate': val, or Math.max(10, qSpan / defaultN)
oil_dq(r) ==
  DPositiveOr(opr_val(r), DMax(DInt(10), DDiv(oil_qSpan(r), DInt(25))))

\* N of the point-count loop: val, or defaultN
opr_N(r) == DPositiveOr(opr_val(r), DInt(25))

\* The rate of pass n of the point-count loop: span * (n / (N - 1)).
oil_count_q(r, n) ==
  DMul(oil_qSpan(r), DDiv(DInt(n), DSub(opr_N(r), DOne)))

\* The loop a generator of the outflow enters.
OprLoop(r) ==
  IF opr_spacingMethod(r) = "Delta Flowrate" THEN "DeltaQ" ELSE "NumPoints"

\* The rate of the pass the oil loop is at, and whether the loop goes on.
OilRate == IF pc = "Oil:DeltaQ" THEN cur ELSE oil_count_q(req, i)

OilLoopGoesOn ==
  IF pc = "Oil:DeltaQ"
  THEN DLe(cur, DAdd(oil_qSpan(req), DDec(1, 9)))
  ELSE DLt(DInt(i), opr_N(req))

\* One step of calculateOilOPR: its entry (the guard on L, D_in, rho and
\* muo), or one pass through the loop the spacing method selected.
calculateOilOPR ==
  /\ req.opr = "Oil"
  /\ pc \in {"ready", "Oil:DeltaQ", "Oil:NumPoints"}
  /\ i < MaxSteps
  /\ UNCHANGED <<zvars, tubvars>>
  /\ req' = req
  /\ IF pc = "ready"
     THEN /\ pc' = IF \A v \in {req.L, req.D_in, req.rho, req.muo} : DIsFinite(v)
                   THEN IF OprLoop(req) = "DeltaQ" THEN "Oil:DeltaQ"
                        ELSE "Oil:NumPoints"
                   ELSE "done"
          /\ UNCHANGED <<points, cur, i>>
     ELSE IF OilLoopGoesOn
     THEN /\ points' = Append(points, Point(oil_p_wf(req, OilRate), OilRate))
          /\ cur' = IF pc = "Oil:DeltaQ" THEN DAdd(cur, oil_dq(req)) ELSE cur
          /\ i' = i + 1
          /\ pc' = pc
     ELSE /\ pc' = "done"
          /\ UNCHANGED <<points, cur, i>>

\* Nseg of iterate_pwf, and the points of a gas outflow curve followed.
Nseg == 40

MaxRates == 3

gas_rel(r) ==
  IF DLe(opr_eps(r), DDec(1, 2)) THEN DNumber(opr_eps(r))
  ELSE DDiv(DNumber(opr_eps(r)), opr_D_ft(r))

\* T_surf + (T_res - T_surf) * ((n + 0.5) / Nseg), the temperature at the
\* middle of segment n.
march_T_F(r, n) ==
  DAdd(r.T_surf,
       DMul(DSub(r.T_res, r.T_surf), DDiv(DDec(10 * n + 5, 1), DInt(Nseg))))

\* Math.PI * (Dft * Dft) / 4
march_A(r) == DDiv(DMul(DDec(31415927, 7), DMul(opr_D_ft(r), opr_D_ft(r))), DInt(4))

\* Qstd_scf_s * (Z * T_R / p) * (Psc / (Zsc * TscR)) / A
march_V(r, q, p, Z, T_R) ==
  DDiv(DMul(DMul(DDiv(DMul(q, DInt(1000)), DInt(86400)),
                 DDiv(DMul(Z, T_R), p)),
            DDiv(DDec(147, 1), DMul(DOne, DInt(520)))),
       march_A(r))

\* (28.97 * sg_g * p) / (10.73 * Z * T_R)
march_rho(r, p, Z, T_R) ==
  DDiv(DMul(DMul(DDec(2897, 2), r.sg_g), p), DMul(DMul(DDec(1073, 2), Z), T_R))

\* Math.max(1, (rho * V * Dft) / mu_lbmfts)
march_Re(r, rho, V, mu_cp) ==
  DMax(DOne, DDiv(DMul(DMul(rho, V), opr_D_ft(r)), DMul(mu_cp, DDec(672, 6))))

\* dP_fric_psi + dP_grav_psi for the friction factor fF
march_dP(r, rho, V, fF) ==
  DAdd(DDiv(DMul(DMul(DMul(DInt(4), fF),
                      DDiv(DDiv(r.L, DInt(Nseg)), opr_D_ft(r))),
                 DDiv(DMul(DMul(rho, V), V), DMul(DInt(2), DDec(32174, 3)))),
            DInt(144)),
       DMul(DMul(DDec(433, 3), DDiv(rho, DDec(624, 1))),
            DMul(DDiv(r.L, DInt(Nseg)), DSinDeg(opr_thetaDeg(r)))))

march_drop(r, rho, V, mu_cp) ==
  march_dP(r, rho, V,
           fanningFromModel(march_Re(r, rho, V, mu_cp), gas_rel(r),
                            opr_frictionModel(r)))

\* The pressure after a segment entered at p, for the z-factor Z and the
\* viscosity mu_cp the segment uses.
march_segment(r, q, p, T_R, Z, mu_cp) ==
  DAdd(p, march_drop(r, march_rho(r, p, Z, T_R), march_V(r, q, p, Z, T_R), mu_cp))

\* The pass of the loop after the one at rate cur.
GasNextRate(r) ==
  IF OprLoop(r) = "DeltaQ"
  THEN DAdd(cur, DPositiveOr(opr_val(r),
                             DMax(DInt(25), DDiv(DInt(5000), opr_N(r)))))
  ELSE cur

\* iterate_pwf returns p_wf for the rate of the march: the point is pushed
\* and the loop of calculateGasOPR goes on.
GasOprPush(p_wf) ==
  /\ points' = Append(points, Point(p_wf, march.q))
  /\ pc' = IF OprLoop(req) = "DeltaQ" THEN "GasOPR:DeltaQ" ELSE "GasOPR:NumPoints"
  /\ i' = i + 1
  /\ cur' = GasNextRate(req)

\* A faulty end of a segment: the safety return left out.
MarchTo_unguarded(T_F, Z, p) ==
  /\ march' = [march EXCEPT !.seg = march.seg + 1, !.p = p, !.T_F = T_F, !.Z = Z]
  /\ IF march.seg + 1 = Nseg THEN GasOprPush(p)
     ELSE UNCHANGED <<points, pc, i, cur>>

\* The end of a segment that left the pressure p: the safety return of
\* p_wh, the return of p after the last segment, or the next segment.
MarchTo(T_F, Z, p) ==
  /\ march' = [march EXCEPT !.seg = march.seg + 1, !.p = p, !.T_F = T_F, !.Z = Z]
  /\ IF ~DIsFinite(p) THEN GasOprPush(opr_p_wh(req))
     ELSE IF march.seg + 1 = Nseg THEN GasOprPush(p)
     ELSE UNCHANGED <<points, pc, i, cur>>

\* A segment with the outcomes Z of z_PT and mu of gas_visc_PT.
MarchWith(T_F, Z, mu) ==
  IF Z.kind = "error" \/ mu.kind = "error"
  THEN /\ pc' = "raised"
       /\ UNCHANGED <<points, i, cur, march>>
  ELSE MarchTo(T_F, Z.x,
               march_segment(req, march.q, march.p, DAdd(T_F, DDec(45967, 2)),
                             Z.x, mu.x))

\* gas_visc_PT(p, T_F, sg_g, 0, zMethodCode) evaluates z_gas at the reduced
\* properties z_PT has just evaluated it at: its outcome is the viscosity
\* for that Z.
MarchAt(T_F, Z) ==
  MarchWith(T_F, Z, gas_visc_of(march.p, T_F, req.sg_g, Z))

\* One segment of the loop of iterate_pwf.
iterate_pwf ==
  /\ req.opr = "Gas"
  /\ pc = "march"
  /\ UNCHANGED <<zvars, freq, fpc, fout, fi>>
  /\ req' = req
  /\ MarchAt(march_T_F(req, march.seg),
             z_PT(march.p, march_T_F(req, march.seg), req.sg_g, req.zMethodCode))

\* The rate of the pass the gas loop is at, and whether the loop goes on.
GasOprRate ==
  IF pc = "GasOPR:DeltaQ" THEN cur
  ELSE DDiv(DMul(DInt(5000), DInt(i)), DSub(opr_N(req), DOne))

GasOprLoopGoesOn ==
  IF pc = "GasOPR:DeltaQ"
  THEN DLe(cur, DAdd(DInt(5000), DDec(1, 9)))
  ELSE DLt(DInt(i), opr_N(req))

\* One step of calculateGasOPR: its entry (the guard on L, D_in, sg_g,
\* T_surf and T_res), or the call of iterate_pwf for the next rate.
calculateGasOPR ==
  /\ req.opr = "Gas"
  /\ pc \in {"ready", "GasOPR:DeltaQ", "GasOPR:NumPoints"}
  /\ UNCHANGED <<zvars, freq, fpc, fout, fi>>
  /\ req' = req
  /\ IF pc = "ready"
     THEN /\ pc' = IF \A v \in {req.L, req.D_in, req.sg_g, req.T_surf, req.T_res} :
                        DIsFinite(v)
                   THEN IF OprLoop(req) = "DeltaQ" THEN "GasOPR:DeltaQ"
                        ELSE "GasOPR:NumPoints"
                   ELSE "done"
          /\ UNCHANGED <<points, cur, i, march>>
     ELSE IF GasOprLoopGoesOn /\ Len(points) < MaxRates
     THEN /\ march' = [seg |-> 0, q |-> GasOprRate, p |-> opr_p_wh(req),
                       T_F |-> DZero, Z |-> DZero]
          /\ pc' = IF DLt(GasOprRate, DZero) THEN pc ELSE "march"
          /\ points' = IF DLt(GasOprRate, DZero)
                       THEN Append(points, Point(opr_p_wh(req), GasOprRate))
                       ELSE points
          /\ i' = IF DLt(GasOprRate, DZero) THEN i + 1 ELSE i
          /\ cur' = IF DLt(GasOprRate, DZero) THEN GasNextRate(req) ELSE cur
     ELSE /\ pc' = "done"
          /\ UNCHANGED <<points, cur, i, march>>

\* The tubing state while no friction call and no pressure march is followed.
FIdleRequest == [Re |-> DOne, rel |-> DZero, model |-> "Chen (1979)"]

MarchIdle == [seg |-> 0, q |-> DZero, p |-> DZero, T_F |-> DZero, Z |-> DZero]

TubIdle ==
  /\ march = MarchIdle
  /\ freq = FIdleRequest
  /\ fpc = "idle"
  /\ fout = DZero
  /\ fi = 0

Init ==
  /\ req \in Requests
  /\ pc = "ready"
  /\ i = 0
  /\ cur = Zero
  /\ points = <<>>
  /\ ZIdle
  /\ TubIdle

Next ==
  \/ calculateIPR
  \/ oil_calculateTransientIPR
  \/ oil_calculatePseudosteadyIPR
  \/ oil_calculateSteadyStateIPR
  \/ two_calculatePseudosteadyIPR

Spec == Init /\ [][Next]_vars

(***************************************************************************)
(* Properties of the inflow generators.                                    *)
(***************************************************************************)
\* a === b of two JavaScript numbers (NaN equals nothing).
SameNumber(a, b) == ~IsNaN(a) /\ a = b

SamePoint(pt, p_wf, q_o) == SameNumber(pt.p_wf, p_wf) /\ SameNumber(pt.q_o, q_o)

IsCount(v) == IsFinite(v) /\ v.d = 1 /\ v.n >= 2

LiquidRequest(r) == r.iprPhase = "Liquid" /\ r.flowRegime \in LiquidRegimes

TwoPhaseRequest(r) ==
  r.iprPhase = "Two-phase" /\ r.flowRegime = "Pseudosteady-State"

\* (k h) / (141.2 Bo muo) / (ln(re/rw) - 0.75 + s), as the specification
\* writes the pseudosteady-state productivity index.
PseudosteadyJ(r) ==
  Div(Div(Mul(r.k, r.h), Mul(Mul(Fin(1412, 10), r.Bo), r.muo)),
      Add(Sub(Ln(Div(r.re, r.rw)), Fin(3, 4)), r.s))

\* The bowedness values the input form lets through.
AcceptedA(r) == Ge(r.a, Fin(4, 5)) /\ Le(r.a, One)

\* The productivity index and the reference pressure of a liquid regime.
C7_J(r) ==
  CASE r.flowRegime = "Transient" ->
         Div(Div(Mul(r.k, r.h), Mul(Mul(Fin(1626, 10), r.Bo), r.muo)),
             oil_logTerm(r))
    [] r.flowRegime = "Steady-State" ->
         Div(Div(Mul(r.k, r.h), Mul(Mul(Fin(1412, 10), r.Bo), r.muo)),
             Add(Ln(Div(r.re, r.rw)), r.s))
    [] OTHER -> PseudosteadyJ(r)

C7_p_ref(r) ==
  CASE r.flowRegime = "Transient" -> r.pi
    [] r.flowRegime = "Steady-State" -> r.pe
    [] OTHER -> r.p_avg

\* A request the input form lets through: an accepted bowedness, and a
\* point count that is an integer >= 2 when one is given.
C1_FormAccepts(r) ==
  /\ TwoPhaseRequest(r) => AcceptedA(r)
  /\ (r.spacingMethod = "Number of Points" /\ r.spacingValue # Undefined)
       => IsCount(r.spacingValue)

\* C1: no point of a curve, returned or under construction, has a NaN or
\* infinite pressure or rate, also when the denominator of the productivity
\* index is degenerate.
C1_NoNonFinitePoint ==
  C1_FormAccepts(req)
  => \A k \in 1 .. Len(points) :
       IsFinite(points[k].p_wf) /\ IsFinite(points[k].q_o)

\* A request whose productivity index is finite and positive.
C2_PositiveJ(r) ==
  \/ LiquidRequest(r) /\ IsFinite(C7_J(r)) /\ Gt(C7_J(r), Zero)
  \/ TwoPhaseRequest(r) /\ AcceptedA(r)
       /\ IsFinite(PseudosteadyJ(r)) /\ Gt(PseudosteadyJ(r), Zero)

\* C2: every point of every curve of calculateIPR has pressure >= 0 and
\* rate >= 0, for every spacing method and value (the productivity index
\* being finite and positive).
C2_NonNegativePoints ==
  C2_PositiveJ(req)
  => \A k \in 1 .. Len(points) :
       Ge(points[k].p_wf, Zero) /\ Ge(points[k].q_o, Zero)

C4_Saturated(r) == Le(r.p_avg, r.pb)

C4_Scale(r) == IF C4_Saturated(r) THEN r.p_avg ELSE r.pb

C4_Roots(r, q) ==
  LET J == two_J(r)
      C_coef ==
        IF C4_Saturated(r)
        THEN Sub(Div(q, Div(Mul(J, r.p_avg), Add(One, r.a))), One)
        ELSE Sub(Div(Sub(q, Mul(J, Sub(r.p_avg, r.pb))),
                     Div(Mul(J, r.pb), Add(One, r.a))), One)
  IN QuadraticRoots(r.a, Sub(One, r.a), C_coef)

C4_Accepted(r, q) ==
  { C4_Roots(r, q)[k] : k \in { j \in 1 .. Len(C4_Roots(r, q)) :
      Ge(C4_Roots(r, q)[j], Zero) /\ Le(C4_Roots(r, q)[j], One) } }

C4_Linear(r, q) ==
  ~C4_Saturated(r) /\ Ge(Sub(r.p_avg, Div(q, two_J(r))), r.pb)

C4_Expected(r, q) ==
  IF C4_Linear(r, q) THEN Sub(r.p_avg, Div(q, two_J(r)))
  ELSE IF C4_Accepted(r, q) = {} THEN Null
  ELSE Mul(CHOOSE x \in C4_Accepted(r, q) :
             \A y \in C4_Accepted(r, q) : Ge(x, y),
           C4_Scale(r))

\* C4: each pass of the two-phase Delta Flowrate loop, when the rate is not
\* on the linear branch, accepts only the roots x of the quadratic with
\* 0 <= x <= 1, emits the larger accepted root times the scaling pressure,
\* and emits nothing when no root is accepted or the discriminant is
\* negative.
C4_RootSelection ==
  [][ ( /\ TwoPhaseRequest(req)
        /\ pc = "DeltaQ"
        /\ i < MaxSteps
        /\ Le(cur, two_qMax(req)) )
      => points' = IF C4_Expected(req, cur) = Null THEN points
                   ELSE Append(points, Point(C4_Expected(req, cur), cur)) ]_vars

\* A state where C4's case has happened: a rate with two accepted, distinct
\* roots has been emitted with the larger one, and a rate without an
\* accepted root has been passed over.
C4_Witness ==
  /\ TwoPhaseRequest(req)
  /\ pc = "DeltaQ"
  /\ Len(points) < i
  /\ \E k \in 1 .. Len(points) :
       /\ ~C4_Linear(req, points[k].q_o)
       /\ Cardinality(C4_Accepted(req, points[k].q_o)) = 2
       /\ \A x \in C4_Accepted(req, points[k].q_o) :
            Le(Mul(x, C4_Scale(req)), points[k].p_wf)

\* The rate at the bubble point, J (p_avg - pb).
C5_BubbleRate(r) == Mul(PseudosteadyJ(r), Sub(r.p_avg, r.pb))

C5_Continuous(r) ==
  /\ SameNumber(getFlow_linear(r, r.pb), C5_BubbleRate(r))
  /\ SameNumber(getFlow_vogel(r, r.pb), C5_BubbleRate(r))
  /\ SameNumber(getFlow(r, r.pb), C5_BubbleRate(r))
  /\ \A k \in 1 .. Len(points) :
       points[k].p_wf = r.pb => SameNumber(points[k].q_o, C5_BubbleRate(r))

C6_MaxRate(r) == Div(Mul(PseudosteadyJ(r), r.p_avg), Add(One, r.a))

\* C6: in the saturated case (p_avg <= pb) getFlow(0) = J p_avg / (1 + a),
\* the bound of the Delta Flowrate loop is that value, and a finished
\* Number of Points curve with an integer N >= 2 has N points, the last
\* being {0, J p_avg / (1 + a)}.
C6_SaturatedMaximum ==
  ( TwoPhaseRequest(req) /\ Le(req.p_avg, req.pb) )
  => /\ SameNumber(getFlow(req, Zero), C6_MaxRate(req))
     /\ SameNumber(two_qMax(req), C6_MaxRate(req))
     /\ ( /\ pc = "done"
          /\ req.spacingMethod = "Number of Points"
          /\ IsCount(req.spacingValue) )
        => /\ Len(points) = req.spacingValue.n
           /\ SamePoint(points[Len(points)], Zero, C6_MaxRate(req))

\* A state where C6's case has happened: a finished saturated curve of
\* three points with a finite maximum rate.
C6_Witness ==
  /\ TwoPhaseRequest(req)
  /\ Le(req.p_avg, req.pb)
  /\ pc = "done"
  /\ req.spacingMethod = "Number of Points"
  /\ req.spacingValue = Int2Num(3)
  /\ req.a = Fin(4, 5)
  /\ IsFinite(C6_MaxRate(req))
  /\ Len(points) = 3
  /\ points[3] = Point(Zero, C6_MaxRate(req))

C8_SinglePointTolerated ==
  ( /\ C2_PositiveJ(req)
    /\ req.spacingMethod = "Number of Points"
    /\ req.spacingValue = One )
  => \A k \in 1 .. Len(points) :
       IsFinite(points[k].p_wf) /\ IsFinite(points[k].q_o)

\* C17: the points of a liquid or two-phase curve are in generation order:
\* under 'Number of Points' and 'Delta Pressure' the first point is at the
\* reference pressure and the pressure strictly decreases along the curve;
\* under 'Delta Flowrate' the first point has rate 0 and the rate strictly
\* increases.
C17_GenerationOrder ==
  ((LiquidRequest(req) \/ TwoPhaseRequest(req)) /\ Len(points) > 0) =>
    CASE MethodOf(req) \in {"Number of Points", "Delta Pressure"} ->
           /\ SameNumber(points[1].p_wf, RefPressure(req))
           /\ \A n \in 1 .. Len(points) - 1 :
                Lt(points[n + 1].p_wf, points[n].p_wf)
      [] MethodOf(req) = "Delta Flowrate" ->
           /\ SameNumber(points[1].q_o, Zero)
           /\ \A n \in 1 .. Len(points) - 1 :
                Lt(points[n].q_o, points[n + 1].q_o)
      [] OTHER -> TRUE

\* C12: no step of a call changes the parameter bag it was given: no field
\* is added and none is modified.
C12_ParameterBagUnchanged == [][req' = req]_vars

(***************************************************************************)
(* The z-factor calls explored: reduced pressures and temperatures inside, *)
(* on and outside the limits of each correlation, for every method code.   *)
(***************************************************************************)
ReducedPressures == {Fx(-1, 1), 0, Fx(1, 1), Fx(2, 1), Fx(15, 1), Fx(30, 1)}

ReducedTemperatures ==
  {0, Fx(1, 1), Fx(105, 100), Fx(3, 2), Fx(3, 1), Fx(7, 2)}

MethodCodes == 0 .. 5

ZRequests ==
  { [P_pr |-> P, T_pr |-> T, method |-> m] :
    P \in ReducedPressures, T \in ReducedTemperatures, m \in MethodCodes }

\* The request held while a z-factor call is followed on its own.
IdleRequest == CHOOSE r \in UnhandledRequests : TRUE

InitZ ==
  /\ req = IdleRequest
  /\ pc = "done"
  /\ i = 0
  /\ cur = Zero
  /\ points = <<>>
  /\ zreq \in ZRequests
  /\ zpc = "z_gas"
  /\ iteration = 0
  /\ zcur = 0
  /\ zold = 0
  /\ zZ = 0
  /\ zfinite = TRUE
  /\ zout = ZNone
  /\ TubIdle

NextZ ==
  \/ z_gas
  \/ Z_DAK1975
  \/ Z_DPR1974
  \/ Z_RedlichKwong1949
  \/ Z_BrillBeggs1974

SpecZ == InitZ /\ [][NextZ]_vars

(***************************************************************************)
(* Properties of the z-factor correlations.                                *)
(***************************************************************************)
ZFinished == zpc \in {"returned", "raised"}

\* The range the specification gives each correlation.
C9_InRange(r) ==
  CASE r.method = 0 ->
         r.P_pr > 0 /\ r.P_pr < 30 * ZScale
           /\ r.T_pr > ZScale /\ r.T_pr <= 3 * ZScale
    [] r.method = 1 ->
         r.P_pr > 0 /\ r.P_pr < 15 * ZScale
           /\ r.T_pr > ZScale /\ r.T_pr <= 3 * ZScale
    [] r.method = 3 ->
         r.P_pr < 15 * ZScale /\ r.T_pr > ZScale /\ r.T_pr <= 3 * ZScale
    [] r.method = 4 ->
         r.P_pr < 15 * ZScale
           /\ r.T_pr > Fx(115, 100) /\ r.T_pr <= Fx(24, 10)
    [] OTHER -> TRUE

\* C9: a z-factor request outside the range of the selected correlation
\* (code 0, 1, 3 or 4) ends in a raised error, before any iteration, and
\* never in a returned value.
C9_OutOfRangeRaises ==
  ( ZFinished /\ zreq.method \in {0, 1, 3, 4} /\ ~C9_InRange(zreq) )
  => zpc = "raised" /\ zout = ZError /\ iteration = 0

\* The domain of an iterative solver, and the reciprocal of its tolerance.
C10_InDomain(r) ==
  /\ r.method \in {0, 1, 3}
  /\ r.P_pr > 0
  /\ r.P_pr < (IF r.method = 0 THEN 30 ELSE 15) * ZScale
  /\ r.T_pr > ZScale
  /\ r.T_pr <= 3 * ZScale

C10_TolInv(r) == IF r.method = 3 THEN Pow10(5) ELSE Pow10(6)

\* |zcur - zold| < tolerance
C10_Settled == AbsI(zcur - zold) <= (ZScale - 1) \div C10_TolInv(zreq)

C10_InLoop ==
  zpc \in {"Z_DAK1975:loop", "Z_DPR1974:loop", "Z_RedlichKwong1949:loop"}

\* The positions from which an action of the z-factor call takes a step
\* whatever the values held (none of them has another guard).
C10_Steppable ==
  {"z_gas", "Z_DAK1975", "Z_DAK1975:loop", "Z_DPR1974", "Z_DPR1974:loop",
   "Z_RedlichKwong1949", "Z_RedlichKwong1949:loop", "Z_BrillBeggs1974"}

\* C10: for an in-domain request the iterative solvers (codes 0, 1, 3)
\* terminate.  The iteration counter never exceeds 100; a call that has not
\* finished is at a position it steps from, and a pass that does not return has raised the
\* counter after iterates that differ by the tolerance or more; the call
\* never raises; it returns the Z of the pass whose iterates differ by less
\* than the tolerance (1e-6 for codes 0 and 1, 1e-5 for code 3) before the
\* counter reaches 100, and 999 when the counter has reached 100.
C10_SolversTerminate ==
  C10_InDomain(zreq)
  => /\ iteration <= 100
     /\ zpc # "raised"
     /\ ~ZFinished => zpc \in C10_Steppable
     /\ (C10_InLoop /\ zfinite /\ iteration >= 1) => ~C10_Settled
     /\ (C10_InLoop /\ iteration = 0) => zcur = zold
     /\ zpc = "returned"
        => \/ iteration = 100 /\ zout = ZValue(999 * ZScale)
           \/ /\ iteration < 100
              /\ zout = ZValue(zZ)
              /\ zfinite
              /\ C10_Settled

\* A state where C10's case has happened: an in-domain call of code 0 has
\* run its hundred passes without settling and returned 999.
C10_Witness ==
  /\ C10_InDomain(zreq)
  /\ zreq.method = 0
  /\ zpc = "returned"
  /\ iteration = 100
  /\ zout = ZValue(999 * ZScale)
  /\ ~C10_Settled


(***************************************************************************)
(* Gas requests explored.  Gravity, temperature and pressure stay inside   *)
(* the ranges of the input form (0.56..1, 100..350 F, 500..20000 psi).     *)
(***************************************************************************)
GasRequest(regime, zMethod, sp, sg, T, p) ==
  [iprPhase |-> "Gas", flowRegime |-> regime,
   zMethod |-> zMethod, zMethodCode |-> -1,
   spacingMethod |-> sp[1], spacingValue |-> sp[2],
   k |-> Int2Num(10), h |-> Int2Num(20), s |-> Zero,
   rw |-> Fin(3, 10), re |-> Int2Num(1000),
   T_res |-> T, sg_g |-> sg,
   pi |-> p, p_avg |-> p, pavg |-> Undefined, pe |-> p,
   t |-> Int2Num(10), phi |-> Int2Num(20), ct |-> Fin(1, 10000)]

GasSpacingChoices ==
  ({"Number of Points", ""} \X
     ({Fin(5, 2)} \cup {Int2Num(n) : n \in 1..(MaxN - 1)}))
  \cup ({"Delta Pressure"} \X {Int2Num(700), Int2Num(1000)})
  \cup ({"Delta Flowrate"} \X {Undefined, Int2Num(400)})
  \cup ({"Logarithmic"} \X {Undefined})

\* A gas whose z-factor converges at every sampled pressure.
GasSettledRequests ==
  { GasRequest(regime, "Dranchuk & Abou-Kassem - 1975", sp,
               Fin(7, 10), Int2Num(200), Int2Num(3000)) :
    regime \in LiquidRegimes, sp \in GasSpacingChoices }

\* The other z-factor methods of the form: code 1, and code 2, for which
\* z_gas has no case.
GasMethodRequests ==
  { GasRequest(regime, zm, <<"Number of Points", Int2Num(2)>>,
               Fin(7, 10), Int2Num(200), Int2Num(3000)) :
    regime \in LiquidRegimes,
    zm \in {"Dranchuk, Purvis & Robinson - 1974", "Hall & Yarborough - 1974"} }

\* The spacing value left out, at the lowest pressure the form accepts.
GasDefaultRequests ==
  { GasRequest(regime, "Dranchuk & Abou-Kassem - 1975", <<m, Undefined>>,
               Fin(7, 10), Int2Num(200), Int2Num(500)) :
    regime \in LiquidRegimes, m \in {"Number of Points", "Delta Pressure"} }

\* A heavier, cooler gas: the density iterations do not settle at the
\* higher sampled pressures.
GasUnsettledRequests ==
  { GasRequest(rz[1], rz[2], <<"Number of Points", Int2Num(2)>>,
               Fin(4, 5), Int2Num(150), Int2Num(5000)) :
    rz \in ((LiquidRegimes \X {"Dranchuk & Abou-Kassem - 1975"})
            \cup {<<"Pseudosteady-State", "Dranchuk, Purvis & Robinson - 1974">>}) }

\* The highest pressure the form accepts: Ppr is 30.0075, outside the
\* range of Z_DAK1975.
GasOutOfRangeRequests ==
  { GasRequest(regime, "Dranchuk & Abou-Kassem - 1975", sp,
               Fin(7, 10), Int2Num(200), Int2Num(20000)) :
    regime \in LiquidRegimes,
    sp \in {<<"Number of Points", Int2Num(2)>>, <<"Delta Flowrate", Undefined>>,
            <<"Delta Flowrate", Int2Num(400)>>} }

\* Requests the guards of the pseudosteady generator stop, and one that
\* names the average pressure pavg.
GasGuardedRequests ==
  { [GasRequest(regime, "Dranchuk & Abou-Kassem - 1975",
                <<"Number of Points", Int2Num(2)>>,
                Fin(7, 10), Int2Num(200), Int2Num(3000))
       EXCEPT !.k = g[1], !.re = g[2], !.p_avg = g[3], !.pavg = g[4]] :
    regime \in {"Pseudosteady-State", "Steady-State"},
    g \in { <<Zero, Int2Num(1000), Int2Num(3000), Undefined>>,
            <<Int2Num(10), Fin(3, 10), Int2Num(3000), Undefined>>,
            <<Int2Num(10), Int2Num(1000), Undefined, Int2Num(3000)>>,
            <<Int2Num(10), Int2Num(1000), Undefined, Undefined>> } }

\* A gas request whose regime no generator handles.
GasUnhandledRequests ==
  { GasRequest("Unsteady", "Dranchuk & Abou-Kassem - 1975",
               <<"Number of Points", Int2Num(2)>>,
               Fin(7, 10), Int2Num(200), Int2Num(3000)) }

GasRequests ==
  GasSettledRequests \cup GasMethodRequests \cup GasDefaultRequests
  \cup GasUnsettledRequests
  \cup GasOutOfRangeRequests \cup GasGuardedRequests \cup GasUnhandledRequests

InitGas ==
  /\ req \in GasRequests
  /\ pc = "ready"
  /\ i = 0
  /\ cur = Zero
  /\ points = <<>>
  /\ ZIdle
  /\ TubIdle

NextGas ==
  \/ calculateIPR
  \/ gas_calculatePseudosteadyIPR
  \/ gas_calculateSteadyStateIPR
  \/ gas_calculateTransientIPR

SpecGas == InitGas /\ [][NextGas]_vars

(***************************************************************************)
(* Properties of the gas inflow generators.                                *)
(***************************************************************************)
\* z_PT answered the sentinel of a density loop that did not converge.
IsSentinel(z) == z.kind = "value" /\ z.x = DInt(999)

\* C11: no point of a gas inflow curve was computed with the sentinel
\* z = 999: the z at the mid pressure of every emitted sample is a
\* converged value.
C11_SentinelFiltered ==
  (req.iprPhase = "Gas" /\ req.flowRegime \in LiquidRegimes) =>
    \A n \in 1..Len(points) : ~IsSentinel(gas_z_at(req, points[n].p_wf))

\* C15: a gas request for 'Delta Flowrate' ends with an empty curve and
\* never raises, in each of the three regimes.
C15_DeltaFlowrateEmpty ==
  (req.iprPhase = "Gas" /\ req.flowRegime \in LiquidRegimes
   /\ MethodOf(req) = "Delta Flowrate") =>
    /\ pc # "raised"
    /\ points = <<>>

(***************************************************************************)
(* Friction calls explored: laminar, transitional and turbulent Reynolds   *)
(* numbers, smooth to very rough pipe, every model selector and one the    *)
(* switch does not know.                                                   *)
(***************************************************************************)
ReynoldsChoices ==
  {DZero, DOne, DInt(16), DInt(1000), DDec(20999999, 4), DInt(2100),
   DInt(4000), DInt(100000), DInt(5000000), DNaN}

RoughnessChoices == {DZero, DDec(6, 4), DDec(1, 2), DDec(5, 2)}

ModelChoices == FrictionModels \cup {"Blasius"}

FrictionRequests ==
  { [Re |-> Re, rel |-> rel, model |-> m] :
    Re \in ReynoldsChoices, rel \in RoughnessChoices, m \in ModelChoices }

\* The call of fanningFromModel: it returns at once, or enters the loop of
\* the Colebrook-White case with fM = 0.02.
FrictionCall ==
  /\ fpc = "call"
  /\ IF freq.model = "Colebrook-White (1939)" /\ ~DLt(freq.Re, DInt(2100))
     THEN /\ fout' = DDec(2, 2)
          /\ fpc' = "Colebrook-White"
     ELSE /\ fout' = fanningFromModel(freq.Re, freq.rel, freq.model)
          /\ fpc' = "returned"
  /\ fi' = 0
  /\ UNCHANGED <<iprvars, zvars, march, freq>>

\* One pass of the loop of the Colebrook-White case, or its return of
\* fM / 4.
ColebrookWhite ==
  /\ fpc = "Colebrook-White"
  /\ IF ColebrookLoop(fi)
     THEN /\ fout' = ColebrookUpdate(freq.Re, freq.rel, fout)
          /\ fi' = fi + 1
          /\ fpc' = fpc
     ELSE /\ fout' = DDiv(fout, DInt(4))
          /\ fi' = fi
          /\ fpc' = "returned"
  /\ UNCHANGED <<iprvars, zvars, march, freq>>

InitF ==
  /\ req = IdleRequest
  /\ pc = "done"
  /\ i = 0
  /\ cur = Zero
  /\ points = <<>>
  /\ ZIdle
  /\ march = MarchIdle
  /\ freq \in FrictionRequests
  /\ fpc = "call"
  /\ fout = DZero
  /\ fi = 0

NextF ==
  \/ FrictionCall
  \/ ColebrookWhite

SpecF == InitF /\ [][NextF]_vars

(***************************************************************************)
(* Properties of the friction factor.                                      *)
(***************************************************************************)
\* C13: for every Re < 2100 the friction factor returned is 16 / Re, the
\* same for every model selector, known to the switch or not, and every
\* relative roughness; at Re = 1000 it is 0.016.
C13_LaminarFriction ==
  (fpc = "returned" /\ DLt(freq.Re, DInt(2100))) =>
    /\ fout = DDiv(DInt(16), freq.Re)
    /\ freq.Re = DInt(1000) => fout = DDec(16, 3)

C13_Witness ==
  /\ fpc = "returned"
  /\ freq.Re = DInt(1000)
  /\ freq.model = "Blasius"
  /\ freq.rel = DDec(5, 2)
  /\ fout = DDec(16, 3)

\* |a - b| <= |b| / 20
DWithin5Percent(a, b) ==
  /\ DIsFinite(a)
  /\ DLe(DMul(DInt(20), DSub(DMax(a, b), DMin(a, b))), DMax(b, DNeg(b)))

\* C19: at Re = 2100 the factor of every model, for every roughness, is
\* the laminar limit 16 / 2100 to within 5 percent.
C19_ContinuousAt2100 ==
  (fpc = "returned" /\ freq.Re = DInt(2100)) =>
    DWithin5Percent(fout, fanning_laminar(DInt(2100)))

(***************************************************************************)
(* Outflow requests explored.  The tubing form takes any number in every   *)
(* field (step "any", no minimum or maximum).                              *)
(***************************************************************************)
OilOprRequest(D_in, rho, thetaDeg, qHint, sp) ==
  [opr |-> "Oil", L |-> DInt(8000), D_in |-> D_in, thetaDeg |-> thetaDeg,
   eps |-> DUndefined, rho |-> rho, muo |-> DInt(2), p_wh |-> DInt(100),
   spacingMethod |-> sp[1], spacingValue |-> sp[2], qHint |-> qHint,
   frictionModel |-> "undefined"]

OprSpacingChoices ==
  ({"undefined", "Number of Points"} \X {DUndefined, DInt(2)})
  \cup ({"Number of Points"} \X {DInt(0), DInt(1), DInt(3), DDec(25, 1)})
  \cup ({"Delta Flowrate"} \X {DUndefined, DInt(0), DInt(1000)})

\* A 2.992 in tubing with a 50 lbm/ft3 oil, for every hint and spacing.
OilHintRequests ==
  { OilOprRequest(DDec(2992, 3), DInt(50), DUndefined, qHint, sp) :
    qHint \in {DUndefined, DInt(200), DInt(2000), DInt(40000)},
    sp \in OprSpacingChoices }

\* Degenerate tubing and fluid: a zero diameter, a zero density, a
\* horizontal conduit, a field of the guard left out.
OilDegenerateRequests ==
  { OilOprRequest(g[1], g[2], g[3], DUndefined, sp) :
    g \in { <<DZero, DInt(50), DUndefined>>,
            <<DZero, DZero, DInt(90)>>,
            <<DDec(2992, 3), DInt(50), DInt(0)>>,
            <<DDec(2992, 3), DUndefined, DInt(90)>> },
    sp \in {<<"Number of Points", DInt(2)>>, <<"Delta Flowrate", DUndefined>>} }

\* Roughness on both sides of 0.01, for three tubing sizes.
OprRoughnessChoices ==
  {DDec(1, 4), DDec(18, 4), DDec(1, 2), DDec(5, 2), DDec(-1, 3)}

OilRoughnessRequests ==
  { [OilOprRequest(D_in, DInt(50), DUndefined, DInt(2000),
                   <<"Number of Points", DInt(2)>>) EXCEPT !.eps = eps] :
    D_in \in {DDec(1995, 3), DDec(2441, 3), DDec(2992, 3)},
    eps \in OprRoughnessChoices }

OilOprRequests ==
  OilHintRequests \cup OilDegenerateRequests \cup OilRoughnessRequests

GasOprRequest(sg, T_surf, T_res, p_wh, zMethodCode, sp) ==
  [opr |-> "Gas", L |-> DInt(8000), D_in |-> DDec(2992, 3),
   thetaDeg |-> DUndefined, eps |-> DUndefined, sg_g |-> sg,
   T_surf |-> T_surf, T_res |-> T_res, p_wh |-> p_wh,
   spacingMethod |-> sp[1], spacingValue |-> sp[2],
   frictionModel |-> "undefined", zMethodCode |-> zMethodCode]

GasOprRequests ==
  { \* a gas whose z-factor converges along the whole march
    GasOprRequest(DDec(7, 1), DInt(80), DInt(200), DInt(1000), 0,
                  <<"Number of Points", DInt(2)>>),
    GasOprRequest(DDec(7, 1), DInt(80), DInt(200), DInt(1000), 1,
                  <<"Delta Flowrate", DInt(2500)>>),
    \* a heavier gas at a higher surface pressure
    GasOprRequest(DDec(8, 1), DInt(80), DInt(250), DInt(3000), 0,
                  <<"Delta Flowrate", DInt(200)>>),
    \* the surface pressure left out
    GasOprRequest(DDec(7, 1), DInt(80), DInt(200), DUndefined, 0,
                  <<"undefined", DUndefined>>),
    GasOprRequest(DDec(7, 1), DInt(80), DInt(200), DUndefined, 0,
                  <<"Delta Flowrate", DUndefined>>),
    \* a surface pressure outside the range of Z_DAK1975
    GasOprRequest(DDec(7, 1), DInt(80), DInt(200), DInt(20000), 0,
                  <<"Number of Points", DInt(2)>>),
    \* a field of the guard left out
    GasOprRequest(DDec(7, 1), DUndefined, DInt(200), DInt(1000), 0,
                  <<"Number of Points", DInt(2)>>),
    \* a single point
    GasOprRequest(DDec(7, 1), DInt(80), DInt(200), DInt(1000), 0,
                  <<"Number of Points", DInt(1)>>),
    \* method codes for which z_gas has no case
    GasOprRequest(DDec(7, 1), DInt(80), DInt(200), DInt(1000), 2,
                  <<"Number of Points", DInt(2)>>),
    GasOprRequest(DDec(7, 1), DInt(80), DInt(200), DInt(1000), 5,
                  <<"Delta Flowrate", DInt(2500)>>) }
  \cup
  { [GasOprRequest(DDec(7, 1), DInt(80), DInt(200), DInt(1000), 0,
                   <<"Number of Points", DInt(2)>>)
       EXCEPT !.eps = eps, !.D_in = DDec(2441, 3)] :
    eps \in {DDec(1, 4), DDec(5, 2)} }

InitOPR ==
  /\ req \in OilOprRequests \cup GasOprRequests
  /\ pc = "ready"
  /\ i = 0
  /\ cur = DZero
  /\ points = <<>>
  /\ ZIdle
  /\ TubIdle

NextOPR ==
  \/ calculateOilOPR
  \/ calculateGasOPR
  \/ iterate_pwf

SpecOPR == InitOPR /\ [][NextOPR]_vars

(***************************************************************************)
(* Properties of the outflow generators.                                   *)
(***************************************************************************)
\* The loop of calculateOilOPR has been entered: the guard let the request
\* through and the span has been computed.
OilSpanUsed ==
  /\ req.opr = "Oil"
  /\ \A v \in {req.L, req.D_in, req.rho, req.muo} : DIsFinite(v)
  /\ pc # "ready"

\* C14: the rate span the oil outflow uses lies in [300, 20000] for every
\* input, no emitted rate exceeds it, and a finished 'Number of Points'
\* curve with N >= 2 ends at it.
C14_SpanClamped ==
  OilSpanUsed =>
    /\ DLe(DInt(300), oil_qSpan(req))
    /\ DLe(oil_qSpan(req), DInt(20000))
    /\ \A n \in 1 .. Len(points) : ~DGt(points[n].q_o, oil_qSpan(req))
    /\ ( /\ pc = "done"
         /\ OprLoop(req) = "NumPoints"
         /\ DGe(opr_N(req), DInt(2)) )
       => /\ Len(points) > 0
          /\ points[Len(points)].q_o = oil_qSpan(req)

\* C16: with the spacing value missing or <= 0, the outflow generators step
\* the rate by 50 under 'Delta Flowrate', and the oil generator emits 25
\* points under 'Number of Points'.
C16_DefaultSpacing ==
  ~DGt(opr_val(req), DZero) =>
    /\ OprLoop(req) = "DeltaQ"
         => \A n \in 1 .. Len(points) - 1 :
              points[n + 1].q_o = DAdd(points[n].q_o, DInt(50))
    /\ (OilSpanUsed /\ OprLoop(req) = "NumPoints" /\ pc = "done")
         => Len(points) = 25

\* C18: along a gas outflow curve the bottomhole pressure does not decrease
\* with the rate: any two emitted points with q1 <= q2 have
\* p_wf(q1) <= p_wf(q2).
C18_MonotoneInRate ==
  req.opr = "Gas" =>
    \A a, b \in 1 .. Len(points) :
      DLe(points[a].q_o, points[b].q_o)
        => DLe(points[a].p_wf, points[b].p_wf)

\* The pressure half way between the two ends of the segment a step of the
\* march has crossed.
C20_MidPressure == DDiv(DAdd(march.p, march'.p), DInt(2))

\* C20: every step of the march crosses one segment n at the temperature
\* T_surf + (T_res - T_surf) (n + 0.5) / 40 and with the z-factor of the
\* pressure half way along the segment, and a bottomhole pressure is
\* emitted only after segment 40.
C20_MidpointMarch ==
  [][ (req.opr = "Gas" /\ pc = "march" /\ pc' # "raised")
      => /\ march'.seg = march.seg + 1
         /\ march'.T_F = march_T_F(req, march.seg)
         /\ GValue(march'.Z)
              = z_PT(C20_MidPressure, march'.T_F, req.sg_g, req.zMethodCode)
         /\ Len(points') > Len(points) => march'.seg = Nseg ]_vars

(***************************************************************************)
(* The inflow generators together: every request of the liquid, the        *)
(* two-phase and the gas generators, and the pairs no generator handles.   *)
(***************************************************************************)
InitIPR ==
  /\ req \in Requests \cup GasRequests
  /\ pc = "ready"
  /\ i = 0
  /\ cur = Zero
  /\ points = <<>>
  /\ ZIdle
  /\ TubIdle

NextIPR ==
  \/ calculateIPR
  \/ oil_calculateTransientIPR
  \/ oil_calculatePseudosteadyIPR
  \/ oil_calculateSteadyStateIPR
  \/ two_calculatePseudosteadyIPR
  \/ gas_calculatePseudosteadyIPR
  \/ gas_calculateSteadyStateIPR
  \/ gas_calculateTransientIPR

SpecIPR == InitIPR /\ [][NextIPR]_vars

(***************************************************************************)
(* Properties of the inflow generators together.                           *)
(***************************************************************************)
GasHandled(r) == r.iprPhase = "Gas" /\ r.flowRegime \in LiquidRegimes

\* The reference pressure and the step of a 'Delta Pressure' request, as
\* the specification gives them.
C21_p_ref(r) ==
  CASE r.flowRegime = "Transient" -> r.pi
    [] r.flowRegime = "Steady-State" /\ r.iprPhase # "Two-phase" -> r.pe
    [] OTHER -> r.p_avg

C21_step(r) ==
  IF r.spacingValue # Undefined /\ Gt(r.spacingValue, Zero)
  THEN r.spacingValue ELSE Int2Num(100)

\* floor(p_ref / step)
C21_Floor(r) ==
  Div(C21_p_ref(r), C21_step(r)).n \div Div(C21_p_ref(r), C21_step(r)).d

C21_Case(r) ==
  /\ LiquidRequest(r) \/ TwoPhaseRequest(r) \/ GasHandled(r)
  /\ MethodOf(r) = "Delta Pressure"
  /\ IsFinite(C21_p_ref(r))
  /\ Gt(C21_p_ref(r), Zero)

\* C21: under 'Delta Pressure' with p_ref > 0 and a step d > 0 (100 when
\* none is given) the pressures emitted are p_ref, p_ref - d, p_ref - 2d,
\* ... in this order, none of them negative and at most floor(p_ref/d) + 1
\* of them, and the loop has ended once the pressure has reached or crossed
\* zero, one step at most below it.
C21_PressureStep ==
  C21_Case(req) =>
    /\ Len(points) <= C21_Floor(req) + 1
    /\ \A n \in 1 .. Len(points) :
         /\ Ge(points[n].p_wf, Zero)
         /\ points[n].p_wf
              = Sub(C21_p_ref(req), Mul(Int2Num(n - 1), C21_step(req)))
    /\ pc \in {"DeltaP", "Gas:DeltaP"}
         => /\ Len(points) = i
            /\ cur = Sub(C21_p_ref(req), Mul(Int2Num(i), C21_step(req)))
            /\ Ge(Add(cur, C21_step(req)), Zero)
    /\ pc = "done"
         => /\ Le(cur, Zero)
            /\ Ge(Add(cur, C21_step(req)), Zero)

\* A state where C21's case has happened: a two-phase curve from 4000 psi
\* in steps of 700 has ended after floor(4000/700) + 1 = 6 samples, the
\* last at 500 psi, with the pressure below zero.
C21_Witness ==
  /\ C21_Case(req)
  /\ TwoPhaseRequest(req)
  /\ req.spacingValue = Int2Num(700)
  /\ pc = "done"
  /\ Len(points) = 6
  /\ points[6].p_wf = Int2Num(500)
  /\ cur = Int2Num(-200)

\* |x - y| <= 1e-6 |y|: x is y up to the rounding of a few operations.
C22_Close(x, y) == DLe(DAbs(DSub(x, y)), DMul(DDec(1, 6), DAbs(y)))

\* The relative roughness the generator of the request hands the friction
\* model.
C22_rel(r) == IF r.opr = "Oil" THEN oil_rel(r) ELSE gas_rel(r)

\* The friction model has been called for the request.
C22_Called == req.opr \in {"Oil", "Gas"} /\ Len(points) > 0

C23_Case ==
  freq.model = "Colebrook-White (1939)" /\ ~DLt(freq.Re, DInt(2100))

\* C23: a call with the Colebrook-White model and Re >= 2100 runs the
\* update fM = 1 / rhs^2 exactly 25 times from fM = 0.02: after i passes fM
\* is the i-th iterate, the loop is left at i = 25 only, whether or not the
\* iterates have settled, and the value returned is the 25th iterate
\* divided by 4.
C23_FixedIterations ==
  C23_Case =>
    /\ fi <= 25
    /\ fpc = "call" => fi = 0
    /\ fpc = "Colebrook-White"
         => fout = ColebrookPasses(freq.Re, freq.rel, fi, DDec(2, 2))
    /\ fpc = "returned"
         => /\ fi = 25
            /\ fout = DDiv(ColebrookPasses(freq.Re, freq.rel, 25, DDec(2, 2)),
                           DInt(4))
            /\ fout = fanningFromModel(freq.Re, freq.rel, freq.model)

\* A state where C23's case has happened: at Re = 100000 in a pipe of
\* relative roughness 0.0006 the iterate no longer changes, and the loop
\* still has passes to run.
C23_Witness ==
  /\ C23_Case
  /\ freq.Re = DInt(100000)
  /\ freq.rel = DDec(6, 4)
  /\ fpc = "Colebrook-White"
  /\ fi >= 1
  /\ fi < 20
  /\ fout = ColebrookUpdate(freq.Re, freq.rel, fout)
  /\ DGt(fout, DDec(1, 2))

\* The generator the specification gives each (phase, regime) pair.
C24_Own(r) ==
  CASE r.iprPhase = "Liquid" /\ r.flowRegime = "Transient" -> "oil_calculateTransientIPR"
    [] r.iprPhase = "Liquid" /\ r.flowRegime = "Pseudosteady-State" -> "oil_calculatePseudosteadyIPR"
    [] r.iprPhase = "Liquid" /\ r.flowRegime = "Steady-State" -> "oil_calculateSteadyStateIPR"
    [] r.iprPhase = "Gas" /\ r.flowRegime = "Transient" -> "gas_calculateTransientIPR"
    [] r.iprPhase = "Gas" /\ r.flowRegime = "Pseudosteady-State" -> "gas_calculatePseudosteadyIPR"
    [] r.iprPhase = "Gas" /\ r.flowRegime = "Steady-State" -> "gas_calculateSteadyStateIPR"
    [] r.iprPhase = "Two-phase" /\ r.flowRegime = "Pseudosteady-State" -> "two_calculatePseudosteadyIPR"
    [] OTHER -> "none"

\* The generators whose guard holds in the current state: the position is
\* one of the generator's loops, and the request is of its pair.
C24_Invoked ==
  { g \in {"oil_calculateTransientIPR", "oil_calculatePseudosteadyIPR",
           "oil_calculateSteadyStateIPR", "gas_calculateTransientIPR",
           "gas_calculatePseudosteadyIPR", "gas_calculateSteadyStateIPR",
           "two_calculatePseudosteadyIPR"} :
      CASE g = "oil_calculateTransientIPR" ->
             Running /\ req.iprPhase = "Liquid" /\ req.flowRegime = "Transient"
        [] g = "oil_calculatePseudosteadyIPR" ->
             Running /\ req.iprPhase = "Liquid"
               /\ req.flowRegime = "Pseudosteady-State"
        [] g = "oil_calculateSteadyStateIPR" ->
             Running /\ req.iprPhase = "Liquid" /\ req.flowRegime = "Steady-State"
        [] g = "gas_calculateTransientIPR" ->
             GasRunning /\ req.iprPhase = "Gas" /\ req.flowRegime = "Transient"
        [] g = "gas_calculatePseudosteadyIPR" ->
             GasRunning /\ req.iprPhase = "Gas"
               /\ req.flowRegime = "Pseudosteady-State"
        [] g = "gas_calculateSteadyStateIPR" ->
             GasRunning /\ req.iprPhase = "Gas" /\ req.flowRegime = "Steady-State"
        [] OTHER ->
             Running /\ pc # "Default" /\ req.iprPhase = "Two-phase"
               /\ req.flowRegime = "Pseudosteady-State" }

\* C24: after the dispatch of calculateIPR a handled (phase, regime) pair
\* runs its own generator and no other, until the curve is returned or an
\* error is raised; any other pair has the empty curve returned at once,
\* runs no generator and raises nothing.
C24_Dispatch ==
  /\ C24_Invoked \subseteq {C24_Own(req)}
  /\ pc \notin {"ready", "done", "raised"} => C24_Invoked = {C24_Own(req)}
  /\ C24_Own(req) = "none"
       => /\ pc \in {"ready", "done"}
          /\ points = <<>>

\* A state where C24's case has happened: the call for (Two-phase,
\* Transient) has returned the empty curve.
C24_Witness ==
  /\ req.iprPhase = "Two-phase"
  /\ req.flowRegime = "Transient"
  /\ C24_Own(req) = "none"
  /\ pc = "done"
  /\ points = <<>>
  /\ C24_Invoked = {}

\* The bound of the 'Delta Flowrate' loop of the generator of a liquid or
\* two-phase request, and its step.
C25_qMax(r) ==
  CASE TwoPhaseRequest(r) -> two_qMax(r)
    [] r.flowRegime = "Transient" -> oil_transient_qMax(r)
    [] r.flowRegime = "Steady-State" -> oil_ss_qMax(r)
    [] OTHER -> oil_pss_qMax(r)

C25_dq(r) ==
  IF r.spacingValue # Undefined /\ Gt(r.spacingValue, Zero)
  THEN r.spacingValue ELSE Int2Num(50)

\* floor(x) of a finite x
C25_Floor(x) == x.n \div x.d

\* C25: the loops of a liquid or two-phase call end.  A 'Delta Flowrate'
\* loop has a bound qMax that is not infinite and has made at most
\* floor(qMax/step) + 1 passes (none when qMax is NaN), whatever the
\* productivity factor; a 'Delta Pressure' loop has made at most
\* floor(p_ref/step) + 1 passes.
C25_LoopsBounded ==
  (LiquidRequest(req) \/ TwoPhaseRequest(req)) =>
    /\ pc = "DeltaQ"
         => /\ C25_qMax(req) # PInf
            /\ IsNaN(C25_qMax(req)) => i = 0
            /\ IsFinite(C25_qMax(req))
                 => i <= C25_Floor(Div(C25_qMax(req), C25_dq(req))) + 1
                    \/ i = 0
    /\ (pc = "DeltaP" /\ IsFinite(C21_p_ref(req)))
         => i <= C25_Floor(Div(C21_p_ref(req), C21_step(req))) + 1
            \/ i = 0

\* The forward relation q(p_wf) of the generator of a liquid or two-phase
\* request, the one its 'Number of Points' loop evaluates.
C26_forward(r, p_wf) ==
  IF TwoPhaseRequest(r) THEN getFlow(r, p_wf) ELSE oil_flow(r, p_wf)

\* q is forward(p_wf): exactly for the liquid generators, whose relations
\* are rational, and within a thousandth of J p_avg for the two-phase
\* generator, whose inversion takes a square root (kept to three decimals
\* here, rounded to the last place by the program).
C26_Matches(r, f, q) ==
  IF TwoPhaseRequest(r)
  THEN /\ IsFinite(f)
       /\ Le(Sub(f, q), Mul(Fin(1, 1000), Mul(two_J(r), r.p_avg)))
       /\ Le(Sub(q, f), Mul(Fin(1, 1000), Mul(two_J(r), r.p_avg)))
  ELSE SameNumber(f, q)

C26_OnCurve(r, pt) ==
  /\ C26_Matches(r, C26_forward(r, pt.p_wf), pt.q_o)
  /\ Ge(pt.p_wf, Zero)
  /\ Le(pt.p_wf, C21_p_ref(r))
  /\ IsFinite(Div(pt.q_o, C25_dq(r)))
  /\ Div(pt.q_o, C25_dq(r)).d = 1

\* C26: every point {p_wf, q} a liquid or two-phase generator emits under
\* 'Delta Flowrate' satisfies q = forward(p_wf) and 0 <= p_wf <= p_ref, and
\* q is a whole multiple of the step.
C26_DeltaFlowrateOnCurve ==
  ( /\ LiquidRequest(req) \/ TwoPhaseRequest(req)
    /\ MethodOf(req) = "Delta Flowrate" )
  => \A n \in 1 .. Len(points) : C26_OnCurve(req, points[n])

\* C27: with a finite surface pressure, no bottomhole pressure of a gas
\* outflow curve is NaN or infinite: the march goes on with a finite
\* running pressure only, and a march whose pressure became non-finite
\* has been abandoned with p_wh emitted for its rate.
C27_FinitePressures ==
  (req.opr = "Gas" /\ DIsFinite(opr_p_wh(req))) =>
    /\ \A n \in 1 .. Len(points) : DIsFinite(points[n].p_wf)
    /\ ~DIsFinite(march.p)
         => /\ pc # "march"
            /\ Len(points) > 0
            /\ points[Len(points)] = Point(opr_p_wh(req), march.q)

\* A state where C27's case has happened: with method code 2, for which
\* z_gas answers NaN, the first segment of the march at the second rate
\* left a NaN pressure and the surface pressure 1000 was emitted.
C27_Witness ==
  /\ req.opr = "Gas"
  /\ req.zMethodCode = 2
  /\ req.p_wh = DInt(1000)
  /\ DIsNaN(march.p)
  /\ march.seg = 1
  /\ Len(points) = 2
  /\ points[2] = Point(DInt(1000), DInt(5000))

\* A z-factor request z_gas has no correlation for: a method code outside
\* {0, 1, 3, 4}, or a reduced pressure or temperature that is not positive.
C28_NoCorrelation(r) ==
  r.method \notin {0, 1, 3, 4} \/ r.P_pr <= 0 \/ r.T_pr <= 0

C29_Case(r) ==
  /\ C21_Case(r)
  /\ Div(C21_p_ref(r), C21_step(r)).d = 1

\* The generators whose 'Delta Pressure' loop runs while p_wf > 0.
C29_StopsBefore(r) ==
  LiquidRequest(r) \/ (GasHandled(r) /\ r.flowRegime = "Transient")

\* C29: under 'Delta Pressure' with a step that divides the reference
\* pressure, a finished liquid or gas transient curve has p_ref/step points
\* and no point at p_wf = 0, while a finished two-phase, gas pseudosteady or
\* gas steady-state curve has p_ref/step + 1 points, the last at p_wf = 0.
C29_ZeroSample ==
  (C29_Case(req) /\ pc = "done") =>
    IF C29_StopsBefore(req)
    THEN /\ Len(points) = C21_Floor(req)
         /\ \A n \in 1 .. Len(points) : Gt(points[n].p_wf, Zero)
    ELSE /\ Len(points) = C21_Floor(req) + 1
         /\ points[Len(points)].p_wf = Zero

\* A state where C29's case has happened: the gas transient curve of
\* p_i = 3000 with step 1000 is finished.
C29_Witness ==
  /\ C29_Case(req)
  /\ GasHandled(req) /\ req.flowRegime = "Transient"
  /\ req.spacingValue = Int2Num(1000)
  /\ pc = "done"
  /\ Len(points) = 3
  /\ points[3].p_wf = Int2Num(1000)

\* N of a gas request: val > 0 ? val : defaultN
C30_N(r) == PositiveOr(OrZero(r.spacingValue), defaultN)

\* A gas request the 'Number of Points' loop runs for with an integer
\* N >= 2 and a positive reference pressure; the pseudosteady generator has
\* accepted its inputs.
C30_Case(r) ==
  /\ GasHandled(r)
  /\ MethodOf(r) \in {"Number of Points", ""}
  /\ C30_N(r).t = "fin" /\ C30_N(r).d = 1 /\ C30_N(r).n >= 2
  /\ IsFinite(GasRefPressure(r)) /\ Gt(GasRefPressure(r), Zero)
  /\ r.flowRegime = "Pseudosteady-State" => gas_pss_guards(r)

\* C30: under 'Number of Points' with an integer N >= 2 and a positive
\* reference pressure, a finished gas transient curve has stopped at the
\* sample of p_wf = 0 and has N - 1 points, all with p_wf > 0, while the gas
\* pseudosteady and steady-state generators have gone through all N
\* samples, the last at p_wf = 0; the steady-state curve has all N points,
\* the pseudosteady one those whose rate is finite.
C30_TransientStopsShort ==
  (C30_Case(req) /\ pc = "done") =>
    IF req.flowRegime = "Transient"
    THEN /\ i = C30_N(req).n - 1
         /\ Le(CountPressure(GasRefPressure(req), C30_N(req), i), Zero)
         /\ Len(points) = C30_N(req).n - 1
         /\ \A n \in 1 .. Len(points) : Gt(points[n].p_wf, Zero)
    ELSE /\ i = C30_N(req).n
         /\ CountPressure(GasRefPressure(req), C30_N(req), i - 1) = Zero
         /\ IF req.flowRegime = "Steady-State"
            THEN /\ Len(points) = C30_N(req).n
                 /\ points[Len(points)].p_wf = Zero
            ELSE /\ Len(points) <= C30_N(req).n
                 /\ \A n \in 1 .. Len(points) : DIsFinite(points[n].q_o)

\* A state where C30's case has happened: the gas transient curve of N = 3
\* is finished with two points.
C30_Witness ==
  /\ C30_Case(req)
  /\ req.flowRegime = "Transient"
  /\ C30_N(req) = Int2Num(3)
  /\ pc = "done"
  /\ Len(points) = 2
  /\ points[2].p_wf = Div(GasRefPressure(req), Int2Num(2))

============================================================================
